---------------------------- MODULE Spec2Model ----------------------------
(***************************************************************************)
(* Word Document Server: the layer that makes a document living on local   *)
(* disk or in S3 look like a local file.                                   *)
(*                                                                         *)
(*   word_document_server/utils/s3_utils.py      (locator, store client,   *)
(*                                               s3_file_handler)           *)
(*   word_document_server/utils/file_utils.py    (S3FileContext)           *)
(*   word_document_server/tools/document_tools.py (merge_documents)        *)
(*                                                                         *)
(* Paths and S3 URIs are sequences of one-character strings, so that       *)
(* startswith, urlparse, os.path.splitext and the f-strings that build     *)
(* new addresses are computed the way the code computes them.              *)
(***************************************************************************)
EXTENDS Integers, Sequences, FiniteSets, TLC

(***************************************************************************)
(* Bounds of the model.                                                    *)
(***************************************************************************)
\* time.time() takes a value in 0..MaxClock (whole seconds)
MaxClock == 1
\* merge_documents is called with at most MaxSources source file names
MaxSources == 2

(***************************************************************************)
(* Strings.                                                                *)
(***************************************************************************)
\* Python's None for an optional string or path; like the empty string it
\* is falsy, which is the only way the code tells it apart
None == << >>

Truthy(str) == str # << >>

\* body(v), with v evaluated once: the result of a call is bound to a
\* name before it is used
Bind(v, body(_)) == CHOOSE r \in {body(x) : x \in {v}} : TRUE

\* str.startswith
StartsWith(str, prefix) ==
    /\ Len(prefix) <= Len(str)
    /\ SubSeq(str, 1, Len(prefix)) = prefix

\* str.endswith
EndsWith(str, suffix) ==
    /\ Len(suffix) <= Len(str)
    /\ SubSeq(str, Len(str) - Len(suffix) + 1, Len(str)) = suffix

\* str.rfind(ch), 1-based, 0 when ch does not occur
RFind(str, ch) ==
    LET hits == {i \in 1..Len(str) : str[i] = ch}
    IN  IF hits = {} THEN 0 ELSE CHOOSE i \in hits : \A j \in hits : j <= i

\* the index of the first character of str, at or after from, that is in
\* chars; Len(str) + 1 when there is none
FindFirstOf(str, chars, from) ==
    LET hits == {i \in from..Len(str) : str[i] \in chars}
    IN  IF hits = {} THEN Len(str) + 1
        ELSE CHOOSE i \in hits : \A j \in hits : i <= j

\* str[from:], 1-based
Tail_from(str, from) == SubSeq(str, from, Len(str))

\* str.lstrip(ch)
LStrip(str, ch) ==
    LET keep == {i \in 1..Len(str) : str[i] # ch}
    IN  IF keep = {} THEN << >>
        ELSE Tail_from(str, CHOOSE i \in keep : \A j \in keep : i <= j)

\* str(n) for a non-negative integer
RECURSIVE IntToStr(_)
IntToStr(n) ==
    LET digit == <<"0", "1", "2", "3", "4", "5", "6", "7", "8", "9">>
    IN  IF n < 10 THEN <<digit[n + 1]>>
        ELSE IntToStr(n \div 10) \o <<digit[(n % 10) + 1]>>

\* os.path.splitext (posixpath): the extension starts at the last dot of
\* the last path component, unless that component has only dots before it
splitext(p) ==
    LET sepIndex == RFind(p, "/")
        dotIndex == RFind(p, ".")
        named    == \E i \in (sepIndex + 1)..(dotIndex - 1) : p[i] # "."
    IN  IF dotIndex > sepIndex /\ named
        THEN [base |-> SubSeq(p, 1, dotIndex - 1), ext |-> Tail_from(p, dotIndex)]
        ELSE [base |-> p, ext |-> << >>]

\* os.path.basename (posixpath)
basename(p) == Tail_from(p, RFind(p, "/") + 1)

(***************************************************************************)
(* s3_utils.py: the locator.                                               *)
(***************************************************************************)
S3Scheme == <<"s", "3", ":", "/", "/">>
DocxExt  == <<".", "d", "o", "c", "x">>
PdfExt   == <<".", "p", "d", "f">>

is_s3_uri(path) == StartsWith(path, S3Scheme)

\* urllib.parse.urlparse of a string that starts with s3:// : the netloc
\* runs to the first of / ? #, then the fragment is cut at the first #
\* and the query at the first ?; what is left is the path
urlparse(s3_uri) ==
    LET afterScheme == Tail_from(s3_uri, Len(S3Scheme) + 1)
        netlocEnd   == FindFirstOf(afterScheme, {"/", "?", "#"}, 1)
        rest        == Tail_from(afterScheme, netlocEnd)
        noFragment  == SubSeq(rest, 1, FindFirstOf(rest, {"#"}, 1) - 1)
        noQuery     == SubSeq(noFragment, 1, FindFirstOf(noFragment, {"?"}, 1) - 1)
    IN  [netloc |-> SubSeq(afterScheme, 1, netlocEnd - 1), path |-> noQuery]

\* parse_s3_uri: [ok, bucket, key, error]; ok = FALSE is the ValueError
MutParseAcceptsEmptyKey(s3_uri) ==
    IF ~is_s3_uri(s3_uri)
    THEN [ok |-> FALSE, bucket |-> None, key |-> None, error |-> "Not a valid S3 URI"]
    ELSE LET parsed == urlparse(s3_uri)
             bucket == parsed.netloc
             key    == LStrip(parsed.path, "/")
         IN  IF bucket = << >>
             THEN [ok |-> FALSE, bucket |-> None, key |-> None,
                   error |-> "No bucket specified in S3 URI"]
             ELSE [ok |-> TRUE, bucket |-> bucket, key |-> key, error |-> ""]

parse_s3_uri(s3_uri) ==
    IF ~is_s3_uri(s3_uri)
    THEN [ok |-> FALSE, bucket |-> None, key |-> None, error |-> "Not a valid S3 URI"]
    ELSE LET parsed == urlparse(s3_uri)
             bucket == parsed.netloc
             key    == LStrip(parsed.path, "/")
         IN  IF bucket = << >>
             THEN [ok |-> FALSE, bucket |-> None, key |-> None,
                   error |-> "No bucket specified in S3 URI"]
             ELSE IF key = << >>
             THEN [ok |-> FALSE, bucket |-> None, key |-> None,
                   error |-> "No key specified in S3 URI"]
             ELSE [ok |-> TRUE, bucket |-> bucket, key |-> key, error |-> ""]

\* generate_output_s3_uri(input_s3_uri, suffix, new_extension); called
\* only on a URI that parses
generate_output_s3_uri(input_s3_uri, suffix, new_extension) ==
    Bind(parse_s3_uri(input_s3_uri), LAMBDA parsed :
    Bind(splitext(parsed.key), LAMBDA split :
    LET ext     == IF Truthy(new_extension) THEN new_extension ELSE split.ext
        new_key == split.base \o suffix \o ext
    IN  S3Scheme \o parsed.bucket \o <<"/">> \o new_key))

\* file_utils.py ensure_docx_extension: both branches append the same way
MutEnsureAppendsToLocalOnly(filename) ==
    IF is_s3_uri(filename) THEN filename
    ELSE IF ~EndsWith(filename, DocxExt) THEN filename \o DocxExt
    ELSE filename

ensure_docx_extension(filename) ==
    IF is_s3_uri(filename)
    THEN IF ~EndsWith(filename, DocxExt) THEN filename \o DocxExt ELSE filename
    ELSE IF ~EndsWith(filename, DocxExt) THEN filename \o DocxExt ELSE filename

\* S3FileContext._generate_versioned_path with time.time() = now
EditedTag == <<"_", "e", "d", "i", "t", "e", "d", "_">>

MutVersionedPathWithoutTime(s3_uri, now) ==
    LET split == splitext(s3_uri)
    IN  split.base \o EditedTag \o split.ext

generate_versioned_path(s3_uri, now) ==
    LET split == splitext(s3_uri)
    IN  split.base \o EditedTag \o IntToStr(now) \o split.ext

(***************************************************************************)
(* The environment: the local file system, the S3 store, the clock, and a  *)
(* log of the calls made on them.                                          *)
(***************************************************************************)
VARIABLES
    clock,   \* int(time.time())
    files,   \* the local file system: path -> content, for the existing files
    files0,  \* the file system before the operation started
    store,   \* the S3 store: <<bucket, key>> -> content, for the existing objects
    store0,  \* the store before the operation started
    log,     \* the file-system and store calls made so far, in order
    ctx,     \* the S3FileContext objects, by session
    mrg,     \* the one call of merge_documents
    hnd,     \* the one run of s3_file_handler
    tool,    \* the one call of another document tool
    call     \* the one direct call of a function of s3_utils.py

vars == <<clock, files, files0, store, store0, log, ctx, mrg, hnd, tool, call>>

\* File contents.  A .docx is the sequence of its body blocks: paragraphs,
\* tables, and the paragraph add_page_break appends.  The file
\* tempfile.mkstemp creates has zero bytes and is no document.
Para(text)  == [kind |-> "paragraph", text |-> text]
Table(text) == [kind |-> "table", text |-> text]
PageBreak   == [kind |-> "paragraph", text |-> "<page break>"]
EmptyFile == [docx |-> FALSE, body |-> << >>]
Doc(body) == [docx |-> TRUE, body |-> body]
\* what a caller's doc.save writes during a session
SavedDoc  == Doc(<<Para("S1")>>)

\* doc.paragraphs and doc.tables of python-docx: the blocks of the kind,
\* in body order
IsParagraph(block) == block.kind = "paragraph"
IsTable(block) == block.kind = "table"
paragraphs(body) == SelectSeq(body, IsParagraph)
tables(body) == SelectSeq(body, IsTable)

\* tempfile.mkstemp(suffix): a new file /t/<n><suffix> whose name no
\* existing file has
TempDir == <<"/", "t", "/">>
IsTemp(path) == StartsWith(path, TempDir)
TempNames(fs) == {p[Len(TempDir) + 1] : p \in {q \in DOMAIN fs : IsTemp(q)}}
FreshTemp(fs, suffix) ==
    LET free == {n \in 0..9 : IntToStr(n)[1] \notin TempNames(fs)}
        n    == CHOOSE i \in free : \A j \in free : i <= j
    IN  TempDir \o IntToStr(n) \o suffix

\* the environment a call works on, and the event it logs
Env == [files |-> files, store |-> store, log |-> log]

Event(ev, who, path, uri, result) ==
    [ev |-> ev, who |-> who, path |-> path, uri |-> uri, result |-> result,
     content_type |-> ""]

Logged(env, e) == [env EXCEPT !.log = Append(@, e)]

WriteFile(fs, path, content) ==
    [p \in DOMAIN fs \cup {path} |-> IF p = path THEN content ELSE fs[p]]

RemoveFile(fs, path) == [p \in DOMAIN fs \ {path} |-> fs[p]]

exists(env, path) == path \in DOMAIN env.files

\* fd, path = tempfile.mkstemp(suffix=...); os.close(fd).  ok = FALSE is
\* the OSError of a create that fails.
mkstemp(env, who, suffix, ok) ==
    IF ok
    THEN Bind(FreshTemp(env.files, suffix), LAMBDA path :
              [ok |-> TRUE, path |-> path,
               env |-> Logged([env EXCEPT !.files = WriteFile(@, path, EmptyFile)],
                              Event("mkstemp", who, path, None, "ok"))])
    ELSE [ok |-> FALSE, path |-> None,
          env |-> Logged(env, Event("mkstemp", who, None, None, "error"))]

\* os.unlink(path) inside try/except-pass; ok = FALSE is an unlink that
\* raises and leaves the file
unlink(env, who, path, ok) ==
    IF ok
    THEN Logged([env EXCEPT !.files = RemoveFile(@, path)],
                Event("unlink", who, path, None, "ok"))
    ELSE Logged(env, Event("unlink", who, path, None, "error"))

\* What the store answers to one request: "403" and "other" are ClientErrors
\* with that code and with another one, "nocreds" is NoCredentialsError,
\* "exception" any exception that is neither
StoreFaults == {"403", "nocreds", "other", "exception"}
StoreAnswers == {"ok"} \cup StoreFaults

\* download_from_s3(s3_uri) with no local_path.  answer is what the store
\* does with the request if the object is there; mk is whether mkstemp
\* succeeds.  Returns (success, message, local_path) and the environment.
MutDownloadKeepsPathOnFailure(env, who, s3_uri, mk, answer) ==
    Bind(parse_s3_uri(s3_uri), LAMBDA parsed :
    IF ~parsed.ok
    THEN [success |-> FALSE, message |-> parsed.error, local_path |-> None,
          env |-> env]
    ELSE
    Bind(mkstemp(env, who, splitext(basename(parsed.key)).ext, mk), LAMBDA made :
    Bind(<<parsed.bucket, parsed.key>>, LAMBDA obj :
    Bind(IF answer = "ok" /\ obj \notin DOMAIN env.store THEN "404" ELSE answer,
         LAMBDA got :
    IF ~made.ok
    THEN [success |-> FALSE, message |-> "Failed to download from S3",
          local_path |-> None, env |-> made.env]
    ELSE IF got = "ok"
    THEN [success |-> TRUE, message |-> "Downloaded from S3",
          local_path |-> made.path,
          env |-> Logged([made.env EXCEPT
                            !.files = WriteFile(@, made.path, env.store[obj])],
                         Event("download", who, made.path, s3_uri, "ok"))]
    ELSE [success |-> FALSE,
          message |-> CASE got = "nocreds" -> "AWS credentials not configured"
                        [] got = "404" -> "S3 object not found"
                        [] got = "403" -> "Access denied to S3 object"
                        [] got = "other" -> "S3 error"
                        [] OTHER -> "Failed to download from S3",
          local_path |-> made.path,
          env |-> Logged(made.env,
                         Event("download", who, made.path, s3_uri, got))]))))

download_from_s3(env, who, s3_uri, mk, answer) ==
    Bind(parse_s3_uri(s3_uri), LAMBDA parsed :
    IF ~parsed.ok
    THEN [success |-> FALSE, message |-> parsed.error, local_path |-> None,
          env |-> env]
    ELSE
    Bind(mkstemp(env, who, splitext(basename(parsed.key)).ext, mk), LAMBDA made :
    Bind(<<parsed.bucket, parsed.key>>, LAMBDA obj :
    Bind(IF answer = "ok" /\ obj \notin DOMAIN env.store THEN "404" ELSE answer,
         LAMBDA got :
    IF ~made.ok
    THEN [success |-> FALSE, message |-> "Failed to download from S3",
          local_path |-> None, env |-> made.env]
    ELSE IF got = "ok"
    THEN [success |-> TRUE, message |-> "Downloaded from S3",
          local_path |-> made.path,
          env |-> Logged([made.env EXCEPT
                            !.files = WriteFile(@, made.path, env.store[obj])],
                         Event("download", who, made.path, s3_uri, "ok"))]
    ELSE [success |-> FALSE,
          message |-> CASE got = "nocreds" -> "AWS credentials not configured"
                        [] got = "404" -> "S3 object not found"
                        [] got = "403" -> "Access denied to S3 object"
                        [] got = "other" -> "S3 error"
                        [] OTHER -> "Failed to download from S3",
          local_path |-> None,
          env |-> Logged(made.env,
                         Event("download", who, made.path, s3_uri, got))]))))

\* upload_to_s3(local_path, s3_uri).  Returns (success, message) and the
\* environment; the event is logged only when the store is asked.
\* upload_to_s3, lines 140-142: the ContentType sent with the file
DocxType   == "application/vnd.openxmlformats-officedocument.wordprocessingml.document"
PdfType    == "application/pdf"

ContentType(local_path) ==
    IF EndsWith(local_path, PdfExt) THEN PdfType ELSE DocxType

\* the request upload_file sends
UploadEvent(who, local_path, s3_uri, result) ==
    [Event("upload", who, local_path, s3_uri, result)
        EXCEPT !.content_type = ContentType(local_path)]

upload_to_s3(env, who, local_path, s3_uri, answer) ==
    Bind(parse_s3_uri(s3_uri), LAMBDA parsed :
    IF ~parsed.ok
    THEN [success |-> FALSE, message |-> parsed.error, env |-> env]
    ELSE IF ~exists(env, local_path)
    THEN [success |-> FALSE, message |-> "Local file does not exist", env |-> env]
    ELSE IF answer = "ok"
    THEN [success |-> TRUE, message |-> "Uploaded",
          env |-> Logged([env EXCEPT
                            !.store = WriteFile(@, <<parsed.bucket, parsed.key>>,
                                                env.files[local_path])],
                         UploadEvent(who, local_path, s3_uri, "ok"))]
    ELSE [success |-> FALSE,
          message |-> CASE answer = "nocreds" -> "AWS credentials not configured"
                        [] answer = "403" -> "Access denied uploading to S3"
                        [] answer = "other" -> "S3 error"
                        [] OTHER -> "Failed to upload to S3",
          env |-> Logged(env, UploadEvent(who, local_path, s3_uri, answer))])

\* shutil.copy2(src, dst); ok = FALSE is a copy that raises
copy2(env, who, src, dst, ok) ==
    IF ok /\ exists(env, src)
    THEN [ok |-> TRUE,
          env |-> Logged([env EXCEPT !.files = WriteFile(@, dst, env.files[src])],
                         Event("copy", who, dst, None, "ok"))]
    ELSE [ok |-> FALSE, env |-> Logged(env, Event("copy", who, dst, None, "error"))]

\* the object a URI addresses in the store, << >> if it addresses none
ObjectOf(uri) ==
    LET parsed == parse_s3_uri(uri)
    IN  IF parsed.ok THEN <<parsed.bucket, parsed.key>> ELSE << >>

\* the upload events of one operation
UploadsBy(who) ==
    {i \in 1..Len(log) : log[i].ev = "upload" /\ log[i].who = who}

(***************************************************************************)
(* The paths, URIs and contents the operations are run on.                 *)
(***************************************************************************)
PathD     == <<"d">> \o DocxExt                                   \* d.docx
PathA     == <<"a">> \o DocxExt                                   \* a.docx
PathM     == <<"m">>                                              \* m
PathN     == <<"n", ".", "t", "x", "t">>                          \* n.txt
PathR     == <<"r">> \o PdfExt                                    \* r.pdf
UriK      == S3Scheme \o <<"b", "/", "k">> \o DocxExt             \* s3://b/k.docx
UriFrag   == S3Scheme \o <<"b", "/", "k", "#", "a">> \o DocxExt   \* s3://b/k#a.docx
UriDir    == S3Scheme \o <<"b", "/", "d", ".", "x", "/", "k">>    \* s3://b/d.x/k
UriNoKey  == S3Scheme \o <<"b">>                                  \* s3://b
UriPdf    == S3Scheme \o <<"b", "/", "o">> \o PdfExt              \* s3://b/o.pdf

DocD == Doc(<<Para("D1"), Table("D1"), Para("D2")>>)
DocA == Doc(<<Para("A1"), Table("A1"), Para("A2")>>)
DocK == Doc(<<Para("K1"), Table("K1")>>)
DocF == Doc(<<Para("F1")>>)
DocX == Doc(<<Para("X1"), Table("X1")>>)

\* the file systems and stores an operation may find
NoFiles   == [p \in {} |-> EmptyFile]
UserFiles == [p \in {PathD, PathA} |-> IF p = PathD THEN DocD ELSE DocA]
\* the same, with a temp file another process has left in the temp directory
UserFilesAndTemp == WriteFile(UserFiles, TempDir \o <<"0">> \o DocxExt, DocX)
\* the same, with files that are no documents: n.txt and r.pdf
UserFilesAndOthers ==
    WriteFile(WriteFile(UserFiles, PathN, EmptyFile), PathR, EmptyFile)
InitialFiles == {NoFiles, UserFiles, UserFilesAndTemp, UserFilesAndOthers}

BucketB == <<"b">>
EmptyStore == [o \in {} |-> EmptyFile]
FullStore ==
    [o \in {<<BucketB, <<"k">> \o DocxExt>>, <<BucketB, <<"k">>>>,
            <<BucketB, <<"d", ".", "x", "/", "k">>>>} |->
        IF o[2] = <<"k">> \o DocxExt THEN DocK
        ELSE IF o[2] = <<"k">> THEN DocF ELSE DocX]
InitialStores == {EmptyStore, FullStore}

(***************************************************************************)
(* file_utils.py: S3FileContext.                                           *)
(***************************************************************************)
Sessions == {"ctx1", "ctx2"}

\* pc: "none" (not constructed), "created" (after __init__), "opened" (in
\* the body of the with statement), "closed" (the with statement is left).
\* timestamp: int(time.time()) as _generate_versioned_path read it, 0 when
\* it was not called.
\* raised: what escapes the with statement: "none", "enter" (__enter__
\* raised), "body" (the body's exception), "exit" (__exit__ raised).
\* handed, saved, exc and upload record what happened: the local_path the
\* caller was handed, whether the body saved to it, whether the body
\* raised, and how the call of upload_to_s3 ended ("not called", "ok" or
\* "failed").
NoCtx ==
    [pc |-> "none", original_path |-> None, is_s3 |-> FALSE, read_only |-> FALSE,
     output_arg |-> None, output_s3_uri |-> None,
     local_path |-> None, temp_file |-> None,
     output_temp_file |-> None, output_local_path |-> None,
     handed |-> None, saved |-> FALSE, exc |-> FALSE, upload |-> "not called",
     raised |-> "none", timestamp |-> 0]

CtxFilenames == {PathD, UriK, UriFrag, UriDir, UriNoKey}
CtxOutputs   == {None, UriPdf, UriNoKey}

\* no operation has been started
Idle ==
    /\ \A s \in Sessions : ctx[s].pc = "none"
    /\ mrg.pc = "none"
    /\ hnd.pc = "none"
    /\ tool.pc = "none"
    /\ call.pc = "none"

SetEnv(env) ==
    /\ files' = env.files
    /\ store' = env.store
    /\ log' = env.log

\* __init__, lines 134-141: the output URI of the session
MutOutputUriVersionsLocal(filename, read_only, output_s3_uri, now) ==
    IF Truthy(output_s3_uri) THEN output_s3_uri
    ELSE IF ~read_only
    THEN generate_versioned_path(filename, now)
    ELSE None

OutputUri(filename, read_only, output_s3_uri, now) ==
    IF Truthy(output_s3_uri) THEN output_s3_uri
    ELSE IF is_s3_uri(filename) /\ ~read_only
    THEN generate_versioned_path(filename, now)
    ELSE None

\* S3FileContext(filename, read_only, output_s3_uri): the object __init__
\* leaves, at time now
NewCtx(filename, read_only, output_s3_uri, now) ==
    [NoCtx EXCEPT !.pc = "created",
                  !.original_path = filename,
                  !.is_s3 = is_s3_uri(filename),
                  !.read_only = read_only,
                  !.output_arg = output_s3_uri,
                  !.output_s3_uri =
                      OutputUri(filename, read_only, output_s3_uri, now),
                  !.timestamp =
                      IF ~Truthy(output_s3_uri) /\ is_s3_uri(filename) /\ ~read_only
                      THEN now ELSE 0]

CtxInit(s, filename, read_only, output_s3_uri) ==
    /\ Idle
    /\ ctx' = [ctx EXCEPT ![s] = NewCtx(filename, read_only, output_s3_uri, clock)]
    /\ UNCHANGED <<clock, files, files0, store, store0, log, mrg, hnd, tool, call>>

\* __enter__, lines 151-159: the input.  Returns the session, the
\* environment, and whether IOError is raised.
EnterInput(c, env, who, mk, answer) ==
    IF c.is_s3
    THEN Bind(download_from_s3(env, who, c.original_path, mk, answer), LAMBDA dl :
         IF ~dl.success
         THEN [c |-> c, env |-> dl.env, raise |-> TRUE]
         ELSE [c |-> [c EXCEPT !.local_path = dl.local_path,
                               !.temp_file = dl.local_path],
               env |-> dl.env, raise |-> FALSE])
    ELSE [c |-> [c EXCEPT !.local_path = c.original_path], env |-> env,
          raise |-> FALSE]

\* __enter__, lines 162-174: the output
MutEnterOutputHandsInput(c, env, who, mk, cp) ==
    IF Truthy(c.output_s3_uri)
    THEN
    Bind(splitext(c.output_s3_uri).ext, LAMBDA ext :
    Bind(mkstemp(env, who, IF Truthy(ext) THEN ext ELSE DocxExt, mk), LAMBDA made :
    Bind([c EXCEPT !.output_local_path = made.path,
                   !.output_temp_file = made.path], LAMBDA c1 :
    IF ~made.ok
    THEN [c |-> c, env |-> made.env, raise |-> TRUE]
    ELSE IF c.is_s3 /\ Truthy(c.local_path)
    THEN Bind(copy2(made.env, who, c.local_path, made.path, cp), LAMBDA copied :
         IF ~copied.ok
         THEN [c |-> c1, env |-> copied.env, raise |-> TRUE]
         ELSE [c |-> c1, env |-> copied.env, raise |-> FALSE])
    ELSE [c |-> c1, env |-> made.env, raise |-> FALSE])))
    ELSE [c |-> [c EXCEPT !.output_local_path = c.local_path], env |-> env,
          raise |-> FALSE]

EnterOutput(c, env, who, mk, cp) ==
    IF Truthy(c.output_s3_uri)
    THEN
    Bind(splitext(c.output_s3_uri).ext, LAMBDA ext :
    Bind(mkstemp(env, who, IF Truthy(ext) THEN ext ELSE DocxExt, mk), LAMBDA made :
    Bind([c EXCEPT !.output_local_path = made.path,
                   !.output_temp_file = made.path], LAMBDA c1 :
    IF ~made.ok
    THEN [c |-> c, env |-> made.env, raise |-> TRUE]
    ELSE IF c.is_s3 /\ Truthy(c.local_path)
    THEN Bind(copy2(made.env, who, c.local_path, made.path, cp), LAMBDA copied :
         IF ~copied.ok
         THEN [c |-> c1, env |-> copied.env, raise |-> TRUE]
         ELSE [c |-> [c1 EXCEPT !.local_path = c1.output_local_path],
               env |-> copied.env, raise |-> FALSE])
    ELSE [c |-> c1, env |-> made.env, raise |-> FALSE])))
    ELSE [c |-> [c EXCEPT !.output_local_path = c.local_path], env |-> env,
          raise |-> FALSE]

\* with S3FileContext(...) as ctx: __enter__.  When it raises, the with
\* statement is left without __exit__ being called.
CtxEnter(s) ==
    /\ ctx[s].pc = "created"
    /\ \E mk1 \in BOOLEAN, answer \in StoreAnswers, mk2 \in BOOLEAN, cp \in BOOLEAN :
       \E input \in {EnterInput(ctx[s], Env, s, mk1, answer)} :
         IF input.raise
         THEN /\ ctx' = [ctx EXCEPT ![s] = [input.c EXCEPT !.pc = "closed",
                                                          !.raised = "enter"]]
              /\ SetEnv(input.env)
         ELSE \E output \in {EnterOutput(input.c, input.env, s, mk2, cp)} :
              IF output.raise
              THEN /\ ctx' = [ctx EXCEPT ![s] = [output.c EXCEPT !.pc = "closed",
                                                                !.raised = "enter"]]
                   /\ SetEnv(output.env)
              ELSE /\ ctx' = [ctx EXCEPT ![s] =
                                [output.c EXCEPT !.pc = "opened",
                                                 !.handed = output.c.local_path]]
                   /\ SetEnv(output.env)
    /\ UNCHANGED <<clock, files0, store0, mrg, hnd, tool, call>>

\* the body of the with statement: doc.save(ctx.local_path)
CtxBodySave(s) ==
    /\ ctx[s].pc = "opened"
    /\ files' = WriteFile(files, ctx[s].local_path, SavedDoc)
    /\ ctx' = [ctx EXCEPT ![s].saved = TRUE]
    /\ UNCHANGED <<clock, files0, store, store0, log, mrg, hnd, tool, call>>

\* the body of the with statement: the caller moves or removes the file
\* it was handed
CtxBodyRemove(s) ==
    /\ ctx[s].pc = "opened"
    /\ ctx[s].local_path \in DOMAIN files
    /\ files' = RemoveFile(files, ctx[s].local_path)
    /\ UNCHANGED <<clock, files0, store, store0, log, ctx, mrg, hnd, tool, call>>

\* __exit__, lines 181-182: whether upload_to_s3 is called
MutShouldUploadReadOnly(c, exc, env) ==
    /\ ~exc
    /\ Truthy(c.output_s3_uri)
    /\ exists(env, c.output_local_path)

MutShouldUploadOnFailure(c, exc, env) ==
    /\ ~c.read_only
    /\ Truthy(c.output_s3_uri)
    /\ exists(env, c.output_local_path)

ShouldUpload(c, exc, env) ==
    /\ ~exc
    /\ ~c.read_only
    /\ Truthy(c.output_s3_uri)
    /\ exists(env, c.output_local_path)

\* __exit__, lines 189-198: the finally block
MutCleanupInputOnly(c, env, who, ul1, ul2) ==
    IF Truthy(c.temp_file) /\ exists(env, c.temp_file)
    THEN unlink(env, who, c.temp_file, ul1) ELSE env

MutCleanupOutputOnly(c, env, who, ul1, ul2) ==
    IF /\ Truthy(c.output_temp_file)
       /\ c.output_temp_file # c.temp_file
       /\ exists(env, c.output_temp_file)
    THEN unlink(env, who, c.output_temp_file, ul2) ELSE env

CtxCleanup(c, env, who, ul1, ul2) ==
    Bind(IF Truthy(c.temp_file) /\ exists(env, c.temp_file)
         THEN unlink(env, who, c.temp_file, ul1) ELSE env, LAMBDA env1 :
    IF /\ Truthy(c.output_temp_file)
       /\ c.output_temp_file # c.temp_file
       /\ exists(env1, c.output_temp_file)
    THEN unlink(env1, who, c.output_temp_file, ul2) ELSE env1)

\* __exit__(exc_type, ...), exc = TRUE when the body raised: the upload,
\* then the finally block.  Returns the session and the environment;
\* raised is "exit" for the IOError of line 186, else the body's exception
\* goes on ("body") or there is none.
CtxClose(c, env, who, exc, answer, ul1, ul2) ==
    Bind(ShouldUpload(c, exc, env), LAMBDA wanted :
    Bind(upload_to_s3(env, who, c.output_local_path, c.output_s3_uri, answer),
         LAMBDA up :
    Bind(IF wanted THEN up.env ELSE env, LAMBDA env1 :
        [c |-> [c EXCEPT !.pc = "closed",
                         !.exc = exc,
                         !.upload = IF ~wanted THEN "not called"
                                    ELSE IF up.success THEN "ok"
                                    ELSE "failed",
                         !.raised = IF wanted /\ ~up.success THEN "exit"
                                    ELSE IF exc THEN "body" ELSE "none"],
         env |-> CtxCleanup(c, env1, who, ul1, ul2)])))

\* the with statement is left
CtxExit(s, exc) ==
    /\ ctx[s].pc = "opened"
    /\ \E answer \in StoreAnswers, ul1 \in BOOLEAN, ul2 \in BOOLEAN :
       \E closed \in {CtxClose(ctx[s], Env, s, exc, answer, ul1, ul2)} :
         /\ SetEnv(closed.env)
         /\ ctx' = [ctx EXCEPT ![s] = closed.c]
    /\ UNCHANGED <<clock, files0, store0, mrg, hnd, tool, call>>

\* get_result_path
MutResultPathOriginal(c) == c.original_path

get_result_path(c) ==
    IF Truthy(c.output_s3_uri) THEN c.output_s3_uri ELSE c.original_path

(***************************************************************************)
(* document_tools.py: merge_documents.                                     *)
(***************************************************************************)
MergeTargets == {PathD, UriK}
MergeSourceNames == {PathA, PathM, UriK}

\* the lists of at most n source file names
SourceLists(n) ==
    UNION {[1..len -> MergeSourceNames] : len \in 0..n}

\* pc: "none", "resolve" (the loop of lines 264-276), "target" (lines
\* 279-287), "copy" (the loop of lines 290-324), "save" (line 327),
\* "upload" (lines 330-335), "cleanup" (the finally block), "done".
\* result is the message returned; failed_at is the index of the source
\* that did not resolve (0 if all did); saved and upload record whether
\* target_doc.save ran and how the call of upload_to_s3 ended.
NoMerge ==
    [pc |-> "none", target_filename |-> None, target_is_s3 |-> FALSE,
     source_filenames |-> << >>, add_page_breaks |-> FALSE,
     temp_files |-> << >>, local_target |-> None, local_sources |-> << >>,
     i |-> 0, target_doc |-> << >>,
     result |-> [ok |-> FALSE, text |-> "", name |-> None, count |-> 0],
     failed_at |-> 0, copy_failed_at |-> 0, saved |-> FALSE,
     upload |-> "not called"]

Message(ok, text, name, count) ==
    [ok |-> ok, text |-> text, name |-> name, count |-> count]

\* merge_documents, lines 248-259
MergeStart(target_filename, source_filenames, add_page_breaks, writeable) ==
    /\ Idle
    /\ LET target == ensure_docx_extension(target_filename)
           m == [NoMerge EXCEPT !.target_filename = target,
                                !.target_is_s3 = is_s3_uri(target),
                                !.source_filenames = source_filenames,
                                !.add_page_breaks = add_page_breaks,
                                !.i = 1]
       IN  mrg' = IF ~is_s3_uri(target) /\ ~writeable
                  THEN [m EXCEPT !.pc = "done",
                                 !.result = Message(FALSE,
                                     "Cannot create target document", target, 0)]
                  ELSE [m EXCEPT !.pc = "resolve"]
    /\ UNCHANGED <<clock, files, files0, store, store0, log, ctx, hnd, tool, call>>

\* lines 270 and 275: the return on a source that does not resolve; a
\* return inside the try block runs the finally block next
MutMergeSkipsSource(m, text, doc_filename) ==
    [m EXCEPT !.i = @ + 1, !.failed_at = m.i]

MergeAbort(m, text, doc_filename) ==
    [m EXCEPT !.pc = "cleanup", !.i = 1, !.failed_at = m.i,
              !.result = Message(FALSE, text, doc_filename, 0)]

\* lines 264-276, one iteration: resolve source_filenames[i]
MergeResolve ==
    /\ mrg.pc = "resolve"
    /\ mrg.i <= Len(mrg.source_filenames)
    /\ \E mk \in BOOLEAN, answer \in StoreAnswers :
       \E doc_filename \in {ensure_docx_extension(mrg.source_filenames[mrg.i])} :
         IF is_s3_uri(doc_filename)
         THEN \E dl \in {download_from_s3(Env, "merge", doc_filename, mk, answer)} :
              /\ SetEnv(dl.env)
              /\ mrg' = IF ~dl.success
                        THEN MergeAbort(mrg, "Failed to download from S3",
                                        doc_filename)
                        ELSE [mrg EXCEPT !.i = @ + 1,
                                         !.local_sources = Append(@, dl.local_path),
                                         !.temp_files = Append(@, dl.local_path)]
         ELSE /\ mrg' = IF ~exists(Env, doc_filename)
                        THEN MergeAbort(mrg, "Source document does not exist",
                                        doc_filename)
                        ELSE [mrg EXCEPT !.i = @ + 1,
                                         !.local_sources = Append(@, doc_filename)]
              /\ UNCHANGED <<files, store, log>>
    /\ UNCHANGED <<clock, files0, store0, ctx, hnd, tool, call>>

\* the message of the except clause, line 337
MergeException == Message(FALSE, "Failed to merge documents", None, 0)

\* lines 279-287: the target file, a temp file if the target is in S3
MergeTarget ==
    /\ mrg.pc = "resolve"
    /\ mrg.i > Len(mrg.source_filenames)
    /\ IF mrg.target_is_s3
       THEN \E mk \in BOOLEAN :
            \E made \in {mkstemp(Env, "merge", DocxExt, mk)} :
              /\ SetEnv(made.env)
              /\ mrg' = IF ~made.ok
                        THEN [mrg EXCEPT !.pc = "cleanup", !.i = 1,
                                         !.result = MergeException]
                        ELSE [mrg EXCEPT !.pc = "copy", !.i = 1,
                                         !.local_target = made.path,
                                         !.temp_files = Append(@, made.path)]
       ELSE /\ mrg' = [mrg EXCEPT !.pc = "copy", !.i = 1,
                                  !.local_target = mrg.target_filename]
            /\ UNCHANGED <<files, store, log>>
    /\ UNCHANGED <<clock, files0, store0, ctx, hnd, tool, call>>

\* lines 298-320: target_doc.add_paragraph(paragraph.text) appends a new
\* paragraph with the text of the source's
add_paragraph(paragraph) == Para(paragraph.text)

\* line 324: copy_table(table, target_doc) of core/tables.py appends a copy
\* of the table to the target
copy_table(table) == Table(table.text)

\* lines 293-324: what one source adds to target_doc: the page break, then
\* its paragraphs, then its tables
MutBreakBeforeEverySource(add_page_breaks, i, source_body) ==
    (IF add_page_breaks THEN <<PageBreak>> ELSE << >>)
        \o paragraphs(source_body) \o tables(source_body)

MutParagraphsOfFirstSourceOnly(add_page_breaks, i, source_body) ==
    (IF add_page_breaks /\ i > 1 THEN <<PageBreak>> ELSE << >>)
        \o (IF i > 1 THEN << >> ELSE paragraphs(source_body))
        \o tables(source_body)

MergedBlocks(add_page_breaks, i, source_body) ==
    Bind(paragraphs(source_body), LAMBDA ps :
    Bind(tables(source_body), LAMBDA ts :
        (IF add_page_breaks /\ i > 1 THEN <<PageBreak>> ELSE << >>)
            \o [k \in 1..Len(ps) |-> add_paragraph(ps[k])]
            \o [k \in 1..Len(ts) |-> copy_table(ts[k])]))

\* lines 336-337 reached from the loop: an exception while source i is
\* read or copied leaves the try block; target_doc is dropped unsaved
MutCopyRaiseSavesTheRest(m) ==
    [m EXCEPT !.i = Len(m.local_sources) + 1, !.copy_failed_at = m.i]

MergeCopyRaises(m) ==
    [m EXCEPT !.pc = "cleanup", !.i = 1, !.copy_failed_at = m.i,
              !.result = MergeException]

\* lines 290-324, one iteration: copy local_sources[i] into target_doc;
\* Document(local_source) raises on a file that is no document, and
\* readable = FALSE is any other exception of the iteration
MergeCopy ==
    /\ mrg.pc = "copy"
    /\ mrg.i <= Len(mrg.local_sources)
    /\ \E readable \in BOOLEAN :
       \E local_source \in {mrg.local_sources[mrg.i]} :
         mrg' = IF \/ ~readable
                   \/ ~exists(Env, local_source)
                   \/ ~files[local_source].docx
                THEN MergeCopyRaises(mrg)
                ELSE [mrg EXCEPT !.i = @ + 1,
                                 !.target_doc = @ \o MergedBlocks(
                                     mrg.add_page_breaks, mrg.i,
                                     files[local_source].body)]
    /\ UNCHANGED <<clock, files, files0, store, store0, log, ctx, hnd, tool, call>>

\* line 327: target_doc.save(local_target); written = FALSE is a save
\* that raises
MergeSave ==
    /\ mrg.pc = "copy"
    /\ mrg.i > Len(mrg.local_sources)
    /\ \E written \in BOOLEAN :
         IF written
         THEN /\ files' = WriteFile(files, mrg.local_target, Doc(mrg.target_doc))
              /\ mrg' = [mrg EXCEPT !.pc = "upload", !.saved = TRUE]
         ELSE /\ files' = files
              /\ mrg' = [mrg EXCEPT !.pc = "cleanup", !.i = 1,
                                    !.result = MergeException]
    /\ UNCHANGED <<clock, files0, store, store0, log, ctx, hnd, tool, call>>

\* lines 330-335: the address the merged document is uploaded to
MergeUploadUri(m) == m.target_filename

\* lines 330-335: upload if the target is in S3, and the message returned
MergeUpload ==
    /\ mrg.pc = "upload"
    /\ LET success == Message(TRUE, "Successfully merged", mrg.target_filename,
                              Len(mrg.source_filenames))
       IN  IF mrg.target_is_s3
           THEN \E answer \in StoreAnswers :
                \E up \in {upload_to_s3(Env, "merge", mrg.local_target,
                                        MergeUploadUri(mrg), answer)} :
                  /\ SetEnv(up.env)
                  /\ mrg' = [mrg EXCEPT
                               !.pc = "cleanup", !.i = 1,
                               !.upload = IF up.success THEN "ok" ELSE "failed",
                               !.result = IF up.success THEN success
                                          ELSE Message(FALSE,
                                              "Failed to upload merged document to S3",
                                              None, 0)]
           ELSE /\ mrg' = [mrg EXCEPT !.pc = "cleanup", !.i = 1, !.result = success]
                /\ UNCHANGED <<files, store, log>>
    /\ UNCHANGED <<clock, files0, store0, ctx, hnd, tool, call>>

\* lines 340-345, one iteration of the finally block: temp_files[i]
MergeCleanup ==
    /\ mrg.pc = "cleanup"
    /\ mrg.i <= Len(mrg.temp_files)
    /\ \E ul \in BOOLEAN :
       \E temp_file \in {mrg.temp_files[mrg.i]} :
         SetEnv(IF Truthy(temp_file) /\ exists(Env, temp_file)
                THEN unlink(Env, "merge", temp_file, ul) ELSE Env)
    /\ mrg' = [mrg EXCEPT !.i = @ + 1]
    /\ UNCHANGED <<clock, files0, store0, ctx, hnd, tool, call>>

\* the finally block is through: merge_documents returns result
MergeReturn ==
    /\ mrg.pc = "cleanup"
    /\ mrg.i > Len(mrg.temp_files)
    /\ mrg' = [mrg EXCEPT !.pc = "done"]
    /\ UNCHANGED <<clock, files, files0, store, store0, log, ctx, hnd, tool, call>>

(***************************************************************************)
(* s3_utils.py: s3_file_handler.                                           *)
(***************************************************************************)
HndInputs  == {PathD, UriK, UriFrag}
HndOutputs == {None, UriPdf, PathA}

\* pc: "none", "opened" (at the yield, in the body of the with statement),
\* "closed" (the with statement is left).  raised, saved, exc and upload
\* are as for S3FileContext.
NoHandler ==
    [pc |-> "none", input_path |-> None, output_path |-> None,
     upload_output |-> FALSE, is_s3_input |-> FALSE,
     local_input |-> None, local_output |-> None, output_s3_uri |-> None,
     temp_files |-> << >>,
     saved |-> FALSE, exc |-> FALSE, upload |-> "not called", raised |-> "none"]

\* lines 221-227: the input
HndInput(h, env, mk, answer) ==
    IF h.is_s3_input
    THEN Bind(download_from_s3(env, "handler", h.input_path, mk, answer), LAMBDA dl :
         IF ~dl.success
         THEN [h |-> h, env |-> dl.env, raise |-> TRUE]
         ELSE [h |-> [h EXCEPT !.local_input = dl.local_path,
                               !.temp_files = Append(@, dl.local_path)],
               env |-> dl.env, raise |-> FALSE])
    ELSE [h |-> [h EXCEPT !.local_input = h.input_path], env |-> env,
          raise |-> FALSE]

\* lines 230-249: the output
HndOutputUri(h) ==
    IF Truthy(h.output_path) THEN h.output_path
    ELSE generate_output_s3_uri(h.input_path, << >>, None)

HndOutput(h, env, mk) ==
    IF \/ Truthy(h.output_path) /\ is_s3_uri(h.output_path)
       \/ ~Truthy(h.output_path) /\ h.is_s3_input
    THEN Bind(HndOutputUri(h), LAMBDA uri :
         Bind(splitext(uri).ext, LAMBDA ext :
         Bind(mkstemp(env, "handler", IF Truthy(ext) THEN ext ELSE DocxExt, mk),
              LAMBDA made :
         IF ~made.ok
         THEN [h |-> h, env |-> made.env, raise |-> TRUE]
         ELSE [h |-> [h EXCEPT !.local_output = made.path,
                               !.temp_files = Append(@, made.path),
                               !.output_s3_uri = uri],
               env |-> made.env, raise |-> FALSE])))
    ELSE IF Truthy(h.output_path)
    THEN [h |-> [h EXCEPT !.local_output = h.output_path], env |-> env,
          raise |-> FALSE]
    ELSE [h |-> [h EXCEPT !.local_output = h.local_input], env |-> env,
          raise |-> FALSE]

\* lines 261-266: the finally block, for the at most two temp files
HndCleanup(temp_files, env, ul1, ul2) ==
    Bind(IF Len(temp_files) >= 1 /\ exists(env, temp_files[1])
         THEN unlink(env, "handler", temp_files[1], ul1) ELSE env, LAMBDA env1 :
    IF Len(temp_files) >= 2 /\ exists(env1, temp_files[2])
    THEN unlink(env1, "handler", temp_files[2], ul2) ELSE env1)

\* with s3_file_handler(input_path, output_path, upload_output) as ...:
\* the generator up to its yield.  An exception before the yield runs the
\* finally block and escapes the with statement.
HndEnter(input_path, output_path, upload_output) ==
    /\ Idle
    /\ \E mk1 \in BOOLEAN, answer \in StoreAnswers, mk2 \in BOOLEAN,
          ul1 \in BOOLEAN, ul2 \in BOOLEAN :
       \E h \in {[NoHandler EXCEPT !.input_path = input_path,
                                   !.output_path = output_path,
                                   !.upload_output = upload_output,
                                   !.is_s3_input = is_s3_uri(input_path)]} :
       \E input \in {HndInput(h, Env, mk1, answer)} :
         IF input.raise
         THEN /\ hnd' = [input.h EXCEPT !.pc = "closed", !.raised = "enter"]
              /\ SetEnv(HndCleanup(input.h.temp_files, input.env, ul1, ul2))
         ELSE \E output \in {HndOutput(input.h, input.env, mk2)} :
              IF output.raise
              THEN /\ hnd' = [output.h EXCEPT !.pc = "closed", !.raised = "enter"]
                   /\ SetEnv(HndCleanup(output.h.temp_files, output.env, ul1, ul2))
              ELSE /\ hnd' = [output.h EXCEPT !.pc = "opened"]
                   /\ SetEnv(output.env)
    /\ UNCHANGED <<clock, files0, store0, ctx, mrg, tool, call>>

\* the body of the with statement: doc.save(local_out)
HndBodySave ==
    /\ hnd.pc = "opened"
    /\ files' = WriteFile(files, hnd.local_output, SavedDoc)
    /\ hnd' = [hnd EXCEPT !.saved = TRUE]
    /\ UNCHANGED <<clock, files0, store, store0, log, ctx, mrg, tool, call>>

\* the body of the with statement: the caller moves or removes local_out
HndBodyRemove ==
    /\ hnd.pc = "opened"
    /\ hnd.local_output \in DOMAIN files
    /\ files' = RemoveFile(files, hnd.local_output)
    /\ UNCHANGED <<clock, files0, store, store0, log, ctx, mrg, hnd, tool, call>>

\* line 254: whether upload_to_s3 is called
HndShouldUpload(h, exc, env) ==
    /\ ~exc
    /\ h.upload_output
    /\ Truthy(h.output_s3_uri)
    /\ exists(env, h.local_output)

\* the with statement is left: the generator after its yield, lines
\* 253-266; exc = TRUE when the body raised
HndExit(exc) ==
    /\ hnd.pc = "opened"
    /\ \E answer \in StoreAnswers, ul1 \in BOOLEAN, ul2 \in BOOLEAN :
       \E h \in {hnd}, env \in {Env} :
       \E wanted \in {HndShouldUpload(h, exc, env)} :
       \E up \in {upload_to_s3(env, "handler", h.local_output, h.output_s3_uri,
                               answer)} :
       \E env1 \in {IF wanted THEN up.env ELSE env} :
         /\ SetEnv(HndCleanup(h.temp_files, env1, ul1, ul2))
         /\ hnd' = [hnd EXCEPT !.pc = "closed",
                               !.exc = exc,
                               !.upload = IF ~wanted THEN "not called"
                                          ELSE IF up.success THEN "ok"
                                          ELSE "failed",
                               !.raised = IF wanted /\ ~up.success THEN "exit"
                                          ELSE IF exc THEN "body" ELSE "none"]
    /\ UNCHANGED <<clock, files0, store0, ctx, mrg, tool, call>>

(***************************************************************************)
(* document_tools.py: create_document, copy_document and the tools that    *)
(* only read a document.                                                   *)
(***************************************************************************)
\* pc: "none", "done" (the tool has returned or raised).  result is the
\* message returned; raised is whether an exception left the tool instead;
\* upload is how the call of upload_to_s3 ended; temp is the temp file the
\* tool made or downloaded into.
NoTool ==
    [pc |-> "none", name |-> "", filename |-> None, destination |-> None,
     result |-> [ok |-> FALSE, text |-> "", name |-> None, count |-> 0],
     raised |-> FALSE, upload |-> "not called", temp |-> None]

ToolFilenames == {PathD, PathM, UriK, UriNoKey}
CopyDestinations == {None, PathA, UriPdf}

Failure(text) == Message(FALSE, text, None, 0)
Success(text, name) == Message(TRUE, text, name, 0)

\* Document() of python-docx: the default template, with an empty body
NewDoc == Doc(<< >>)

\* what a tool's outcome is made of
Outcome(result, upload, temp, env) ==
    [result |-> result, upload |-> upload, temp |-> temp, env |-> env]

\* create_document, lines 31-60: the document goes to S3.  mk, written and
\* ul are whether mkstemp, doc.save and os.unlink succeed.  An exception
\* of the finally block replaces the value being returned and is caught
\* at line 59.
MutCreateReportsSuccess(env, filename, mk, written, answer, ul) ==
    Bind(mkstemp(env, "tool", DocxExt, mk), LAMBDA made :
    Bind(upload_to_s3(made.env, "tool", made.path, filename, answer), LAMBDA up :
        Outcome(Success("created successfully", filename),
                IF ~made.ok THEN "not called"
                ELSE IF up.success THEN "ok" ELSE "failed",
                made.path, IF made.ok THEN up.env ELSE made.env)))

CreateRemote(env, filename, mk, written, answer, ul) ==
    Bind(mkstemp(env, "tool", DocxExt, mk), LAMBDA made :
    IF ~made.ok
    THEN Outcome(Failure("Failed to create document"), "not called", None,
                 made.env)
    ELSE
    Bind(IF written
         THEN [made.env EXCEPT !.files = WriteFile(@, made.path, NewDoc)]
         ELSE made.env, LAMBDA env1 :
    Bind(upload_to_s3(env1, "tool", made.path, filename, answer), LAMBDA up :
    Bind(IF written THEN up.env ELSE env1, LAMBDA env2 :
    Bind(exists(env2, made.path), LAMBDA there :
        Outcome(IF ~written \/ (there /\ ~ul)
                THEN Failure("Failed to create document")
                ELSE IF ~up.success THEN Failure("Failed to upload to S3")
                ELSE Success("created successfully", filename),
                IF ~written THEN "not called"
                ELSE IF up.success THEN "ok" ELSE "failed",
                made.path,
                IF there THEN unlink(env2, "tool", made.path, ul) ELSE env2))))))

\* create_document, lines 62-85: the document is a local file
CreateLocal(env, filename, writeable, written) ==
    IF ~writeable
    THEN Outcome(Failure("Cannot create document"), "not called", None, env)
    ELSE IF ~written
    THEN Outcome(Failure("Failed to create document"), "not called", None, env)
    ELSE Outcome(Success("created successfully", filename), "not called", None,
                 [env EXCEPT !.files = WriteFile(@, filename, NewDoc)])

\* the tool has returned
Returned(name, filename, destination, out) ==
    /\ SetEnv(out.env)
    /\ tool' = [NoTool EXCEPT !.pc = "done", !.name = name,
                              !.filename = filename,
                              !.destination = destination,
                              !.result = out.result,
                              !.upload = out.upload,
                              !.temp = out.temp]

\* create_document(filename)
CreateDocument(filename) ==
    /\ Idle
    /\ \E mk \in BOOLEAN, written \in BOOLEAN, ul \in BOOLEAN,
          writeable \in BOOLEAN, answer \in StoreAnswers :
       \E name \in {ensure_docx_extension(filename)} :
       \E out \in {IF is_s3_uri(name)
                   THEN CreateRemote(Env, name, mk, written, answer, ul)
                   ELSE CreateLocal(Env, name, writeable, written)} :
         Returned("create_document", name, None, out)
    /\ UNCHANGED <<clock, files0, store0, ctx, mrg, hnd, call>>

\* copy_document, lines 178-187: the destination when none is given
CopyTag == <<"_", "c", "o", "p", "y">>

DefaultDestination(source_filename) ==
    Bind(splitext(source_filename), LAMBDA split :
        split.base \o CopyTag \o split.ext)

\* copy_document, lines 199-209: the local source.  Returns its path,
\* whether it is a temp file, and the failure returned if there is none.
CopySource(env, source_filename, mk, answer) ==
    IF is_s3_uri(source_filename)
    THEN Bind(download_from_s3(env, "tool", source_filename, mk, answer),
              LAMBDA dl :
         [ok |-> dl.success, local_source |-> dl.local_path,
          temp_source |-> dl.success,
          failure |-> Failure("Failed to download source from S3"),
          env |-> dl.env])
    ELSE [ok |-> exists(env, source_filename), local_source |-> source_filename,
          temp_source |-> FALSE,
          failure |-> Failure("Source document does not exist"),
          env |-> env]

\* copy_document, lines 211-222: the copy to the destination
CopyOut(env, local_source, destination_filename, answer, cp) ==
    IF is_s3_uri(destination_filename)
    THEN Bind(upload_to_s3(env, "tool", local_source, destination_filename,
                           answer), LAMBDA up :
         Outcome(IF up.success
                 THEN Success("Document copied to", destination_filename)
                 ELSE Failure("Failed to upload to S3"),
                 IF up.success THEN "ok" ELSE "failed", None, up.env))
    ELSE Bind(copy2(env, "tool", local_source, destination_filename, cp),
              LAMBDA copied :
         Outcome(IF copied.ok
                 THEN Success("Document copied to", destination_filename)
                 ELSE Failure("Failed to copy document"),
                 "not called", None, copied.env))

\* copy_document, lines 193-226: the source or the destination is in S3.
\* The os.unlink of the finally block is not guarded: when it raises, the
\* exception replaces the value being returned and is caught at line 234.
CopyRemote(env, source_filename, destination_filename, mk, a1, a2, cp, ul) ==
    Bind(CopySource(env, source_filename, mk, a1), LAMBDA src :
    IF ~src.ok
    THEN Outcome(src.failure, "not called", None, src.env)
    ELSE
    Bind(CopyOut(src.env, src.local_source, destination_filename, a2, cp),
         LAMBDA out :
    Bind(src.temp_source /\ exists(out.env, src.local_source), LAMBDA there :
        Outcome(IF there /\ ~ul THEN Failure("Failed to copy document")
                ELSE out.result,
                out.upload,
                IF src.temp_source THEN src.local_source ELSE None,
                IF there THEN unlink(out.env, "tool", src.local_source, ul)
                ELSE out.env))))

\* copy_document, lines 228-233, with create_document_copy: both are local
CopyLocal(env, source_filename, destination_filename, cp) ==
    IF ~exists(env, source_filename)
    THEN Outcome(Failure("Failed to copy document"), "not called", None, env)
    ELSE Bind(copy2(env, "tool", source_filename, destination_filename, cp),
              LAMBDA copied :
         Outcome(IF copied.ok
                 THEN Success("Document copied to", destination_filename)
                 ELSE Failure("Failed to copy document"),
                 "not called", None, copied.env))

\* copy_document(source_filename, destination_filename)
CopyDocument(source_filename, destination_filename) ==
    /\ Idle
    /\ \E mk \in BOOLEAN, cp \in BOOLEAN, ul \in BOOLEAN,
          answer1 \in StoreAnswers, answer2 \in StoreAnswers :
       \E source \in {ensure_docx_extension(source_filename)} :
       \E destination \in {IF Truthy(destination_filename)
                           THEN ensure_docx_extension(destination_filename)
                           ELSE DefaultDestination(source)} :
       \E out \in {IF is_s3_uri(source) \/ is_s3_uri(destination)
                   THEN CopyRemote(Env, source, destination, mk, answer1,
                                   answer2, cp, ul)
                   ELSE CopyLocal(Env, source, destination, cp)} :
         Returned("copy_document", source, destination, out)
    /\ UNCHANGED <<clock, files0, store0, ctx, mrg, hnd, call>>

\* get_document_info, get_document_text, get_document_outline and
\* get_document_xml_tool: a read-only session around one reading function
ReadTools ==
    {"get_document_info", "get_document_text", "get_document_outline",
     "get_document_xml_tool"}

\* the body of the with statement.  The reading function either raises
\* (body_ok = FALSE) or returns a text: the content of a document it could
\* read, an error description otherwise.  get_document_info returns at
\* line 99 when there is no file.
ReadBody(name, env, filename, local_path, body_ok) ==
    IF name = "get_document_info" /\ ~exists(env, local_path)
    THEN [raises |-> FALSE, result |-> Failure("Document does not exist")]
    ELSE IF ~body_ok
    THEN [raises |-> TRUE, result |-> Failure("Failed to read the document")]
    ELSE IF exists(env, local_path) /\ env.files[local_path].docx
    THEN [raises |-> FALSE, result |-> Success("content", filename)]
    ELSE [raises |-> FALSE, result |-> Failure("error description")]

\* the with statement of a reading tool once __enter__ has returned: the
\* body, then __exit__; an exception that leaves the with statement is
\* caught by the except clauses of the tool, which return a message
ReadSession(name, filename, c, env, body_ok, answer, ul1, ul2) ==
    Bind(ReadBody(name, env, filename, c.local_path, body_ok), LAMBDA body :
    Bind(CtxClose([c EXCEPT !.pc = "opened", !.handed = c.local_path], env,
                  "tool", body.raises, answer, ul1, ul2), LAMBDA closed :
        Outcome(IF closed.c.raised # "none"
                THEN Failure("Failed to read the document")
                ELSE body.result,
                closed.c.upload, closed.c.temp_file, closed.env)))

\* get_document_info(filename) and the like
ReadTool(name, filename) ==
    /\ Idle
    /\ \E mk \in BOOLEAN, answer1 \in StoreAnswers, body_ok \in BOOLEAN,
          answer2 \in StoreAnswers, ul1 \in BOOLEAN :
       \E source \in {ensure_docx_extension(filename)} :
       \E input \in {EnterInput(NewCtx(source, TRUE, None, clock), Env, "tool",
                                mk, answer1)} :
         IF input.raise
         THEN Returned(name, source, None,
                       Outcome(Failure("Failed to download from S3"),
                               "not called", None, input.env))
         ELSE \E output \in {EnterOutput(input.c, input.env, "tool", TRUE, TRUE)} :
              \E out \in {ReadSession(name, source, output.c, output.env,
                                      body_ok, answer2, ul1, TRUE)} :
                Returned(name, source, None, out)
    /\ UNCHANGED <<clock, files0, store0, ctx, mrg, hnd, call>>

(***************************************************************************)
(* s3_utils.py: download_from_s3 and upload_to_s3 called on their own.     *)
(***************************************************************************)
\* pc: "none", "done".  success, message and returned_path are what the
\* function returned; raised is whether it raised instead.
NoCall ==
    [pc |-> "none", fn |-> "", s3_uri |-> None, local_path |-> None,
     answer |-> "", mk |-> TRUE,
     success |-> FALSE, message |-> "", returned_path |-> None,
     raised |-> FALSE, is_s3 |-> FALSE, bucket |-> None, key |-> None]

CallUris == {UriK, UriFrag, UriNoKey, PathD}
CallPaths == {PathD, PathM, PathN, PathR}

\* download_from_s3(s3_uri)
CallDownload(s3_uri) ==
    /\ Idle
    /\ \E mk \in BOOLEAN, answer \in StoreAnswers :
       \E dl \in {download_from_s3(Env, "call", s3_uri, mk, answer)} :
         /\ SetEnv(dl.env)
         /\ call' = [NoCall EXCEPT !.pc = "done", !.fn = "download_from_s3",
                                   !.s3_uri = s3_uri, !.answer = answer,
                                   !.mk = mk,
                                   !.success = dl.success,
                                   !.message = dl.message,
                                   !.returned_path = dl.local_path]
    /\ UNCHANGED <<clock, files0, store0, ctx, mrg, hnd, tool>>

\* file_utils.py resolve_file_for_read(filename): (local_path, is_s3,
\* original_s3_uri), or IOError when the download fails
resolve_file_for_read(env, who, filename, mk, answer) ==
    IF is_s3_uri(filename)
    THEN Bind(download_from_s3(env, who, filename, mk, answer), LAMBDA dl :
         IF ~dl.success
         THEN [raise |-> TRUE, local_path |-> None, is_s3 |-> TRUE, env |-> dl.env]
         ELSE [raise |-> FALSE, local_path |-> dl.local_path, is_s3 |-> TRUE,
               env |-> dl.env])
    ELSE [raise |-> FALSE, local_path |-> filename, is_s3 |-> FALSE, env |-> env]

\* file_utils.py cleanup_temp_file(filepath, is_temp); ul = FALSE is an
\* os.unlink that raises, which is swallowed
MutCleanupIgnoresFlag(env, who, filepath, is_temp, ul) ==
    IF Truthy(filepath) /\ exists(env, filepath)
    THEN unlink(env, who, filepath, ul)
    ELSE env

cleanup_temp_file(env, who, filepath, is_temp, ul) ==
    IF is_temp /\ Truthy(filepath) /\ exists(env, filepath)
    THEN unlink(env, who, filepath, ul)
    ELSE env

\* resolve_file_for_read(filename), then, as its docstring asks of the
\* caller, cleanup_temp_file(local_path, is_s3)
CallResolve(filename) ==
    /\ Idle
    /\ \E mk \in BOOLEAN, answer \in StoreAnswers, ul \in BOOLEAN :
       \E got \in {resolve_file_for_read(Env, "call", filename, mk, answer)} :
         /\ SetEnv(IF got.raise THEN got.env
                   ELSE cleanup_temp_file(got.env, "call", got.local_path,
                                          got.is_s3, ul))
         /\ call' = [NoCall EXCEPT !.pc = "done", !.fn = "resolve_file_for_read",
                                   !.s3_uri = filename, !.answer = answer,
                                   !.mk = mk,
                                   !.is_s3 = got.is_s3,
                                   !.success = ~got.raise,
                                   !.returned_path = got.local_path,
                                   !.raised = got.raise]
    /\ UNCHANGED <<clock, files0, store0, ctx, mrg, hnd, tool>>

\* upload_to_s3(local_path, s3_uri)
CallUpload(local_path, s3_uri) ==
    /\ Idle
    /\ \E answer \in StoreAnswers :
       \E up \in {upload_to_s3(Env, "call", local_path, s3_uri, answer)} :
         /\ SetEnv(up.env)
         /\ call' = [NoCall EXCEPT !.pc = "done", !.fn = "upload_to_s3",
                                   !.s3_uri = s3_uri, !.local_path = local_path,
                                   !.answer = answer,
                                   !.success = up.success,
                                   !.message = up.message]
    /\ UNCHANGED <<clock, files0, store0, ctx, mrg, hnd, tool>>

(***************************************************************************)
(* The specification.                                                      *)
(***************************************************************************)
Init ==
    /\ clock \in 0..MaxClock
    /\ files \in InitialFiles
    /\ files0 = files
    /\ store \in InitialStores
    /\ store0 = store
    /\ log = << >>
    /\ ctx = [s \in Sessions |-> NoCtx]
    /\ mrg = NoMerge
    /\ hnd = NoHandler
    /\ tool = NoTool
    /\ call = NoCall

\* a second passes
Tick ==
    /\ clock < MaxClock
    /\ clock' = clock + 1
    /\ UNCHANGED <<files, files0, store, store0, log, ctx, mrg, hnd, tool, call>>

Next ==
    \/ Tick
    \/ \E s \in Sessions, filename \in CtxFilenames, read_only \in BOOLEAN,
          output_s3_uri \in CtxOutputs :
         CtxInit(s, filename, read_only, output_s3_uri)
    \/ \E s \in Sessions : CtxEnter(s)
    \/ \E s \in Sessions : CtxBodySave(s)
    \/ \E s \in Sessions : CtxBodyRemove(s)
    \/ \E s \in Sessions, exc \in BOOLEAN : CtxExit(s, exc)
    \/ \E target_filename \in MergeTargets,
          source_filenames \in SourceLists(MaxSources),
          add_page_breaks \in BOOLEAN, writeable \in BOOLEAN :
         MergeStart(target_filename, source_filenames, add_page_breaks, writeable)
    \/ MergeResolve
    \/ MergeTarget
    \/ MergeCopy
    \/ MergeSave
    \/ MergeUpload
    \/ MergeCleanup
    \/ MergeReturn
    \/ \E input_path \in HndInputs, output_path \in HndOutputs,
          upload_output \in BOOLEAN :
         HndEnter(input_path, output_path, upload_output)
    \/ HndBodySave
    \/ HndBodyRemove
    \/ \E exc \in BOOLEAN : HndExit(exc)
    \/ \E filename \in ToolFilenames : CreateDocument(filename)
    \/ \E source_filename \in ToolFilenames,
          destination_filename \in CopyDestinations :
         CopyDocument(source_filename, destination_filename)
    \/ \E name \in ReadTools, filename \in ToolFilenames : ReadTool(name, filename)
    \/ \E s3_uri \in CallUris : CallDownload(s3_uri)
    \/ \E local_path \in CallPaths, s3_uri \in CallUris :
         CallUpload(local_path, s3_uri)
    \/ \E filename \in CallUris : CallResolve(filename)

Spec == Init /\ [][Next]_vars

(***************************************************************************)
(* The locator functions on their own: is_s3_uri, parse_s3_uri and         *)
(* ensure_docx_extension applied to strings of a small alphabet.           *)
(***************************************************************************)
MaxLen == 4
Alphabet == {"b", "k", "/", "#", "?"}
Words(n) == UNION {[1..m -> Alphabet] : m \in 0..n}

UriReport ==
    S3Scheme \o <<"b", "/", "d", "o", "c", "s", "/", "r", "e", "p", "o", "r", "t">>
NearScheme == <<"s", "3", ":", "/", "b", "/", "k">>            \* s3:/b/k

\* the strings parsed: remote ones, local ones, and one that nearly
\* starts with the scheme
ParseInputs ==
    {S3Scheme \o w : w \in Words(MaxLen)} \cup Words(2)
        \cup {NearScheme, UriReport, UriReport \o DocxExt}

\* the strings normalized: local and remote, with and without an extension
EnsureInputs ==
    {stem \o ext : stem \in Words(2) \cup {S3Scheme \o w : w \in Words(2)}
                               \cup {UriReport, S3Scheme},
                   ext \in {<< >>, DocxExt, PdfExt, <<".", "d", "o", "c">>,
                            DocxExt \o DocxExt}}

\* is_s3_uri(s3_uri) and parse_s3_uri(s3_uri)
CallParse(s3_uri) ==
    /\ Idle
    /\ \E parsed \in {parse_s3_uri(s3_uri)} :
         call' = [NoCall EXCEPT !.pc = "done", !.fn = "parse_s3_uri",
                                !.s3_uri = s3_uri,
                                !.is_s3 = is_s3_uri(s3_uri),
                                !.success = parsed.ok,
                                !.message = parsed.error,
                                !.bucket = parsed.bucket,
                                !.key = parsed.key]
    /\ UNCHANGED <<clock, files, files0, store, store0, log, ctx, mrg, hnd, tool>>

\* ensure_docx_extension(filename), then is_s3_uri and parse_s3_uri of
\* what it returns
CallEnsure(filename) ==
    /\ Idle
    /\ \E name \in {ensure_docx_extension(filename)} :
       \E parsed \in {parse_s3_uri(name)} :
         call' = [NoCall EXCEPT !.pc = "done", !.fn = "ensure_docx_extension",
                                !.local_path = filename,
                                !.returned_path = name,
                                !.is_s3 = is_s3_uri(name),
                                !.success = parsed.ok,
                                !.message = parsed.error,
                                !.bucket = parsed.bucket,
                                !.key = parsed.key]
    /\ UNCHANGED <<clock, files, files0, store, store0, log, ctx, mrg, hnd, tool>>

InitLocator == Init /\ clock = 0 /\ files = UserFiles /\ store = FullStore

NextLocator ==
    \/ \E s3_uri \in ParseInputs : CallParse(s3_uri)
    \/ \E filename \in EnsureInputs : CallEnsure(filename)

SpecLocator == InitLocator /\ [][NextLocator]_vars

\* Sessions that overlap in time: a session may be constructed while
\* another one is open (the tools are coroutines of one server, and
\* several servers may share the file system).
CtxInitConc(s, filename, read_only, output_s3_uri) ==
    /\ ctx[s].pc = "none"
    /\ mrg.pc = "none" /\ hnd.pc = "none" /\ tool.pc = "none" /\ call.pc = "none"
    /\ ctx' = [ctx EXCEPT ![s] = NewCtx(filename, read_only, output_s3_uri, clock)]
    /\ UNCHANGED <<clock, files, files0, store, store0, log, mrg, hnd, tool, call>>

\* what the overlapping sessions are opened on
ConcFilenames == {PathD, UriK}

InitConc ==
    /\ Init
    /\ files = UserFiles
    /\ store = FullStore

NextConc ==
    \/ Tick
    \/ \E s \in Sessions, filename \in ConcFilenames, read_only \in BOOLEAN :
         CtxInitConc(s, filename, read_only, None)
    \/ \E s \in Sessions : CtxEnter(s)
    \/ \E s \in Sessions : CtxBodySave(s)
    \/ \E s \in Sessions : CtxBodyRemove(s)
    \/ \E s \in Sessions, exc \in BOOLEAN : CtxExit(s, exc)

SpecConc == InitConc /\ [][NextConc]_vars

(***************************************************************************)
(* Properties.                                                             *)
(***************************************************************************)
TempFilesIn(fs) == {p \in DOMAIN fs : IsTemp(p)}

\* the events of one kind logged by one operation
EventsBy(who, ev) ==
    {i \in 1..Len(log) : log[i].ev = ev /\ log[i].who = who}

\* no os.unlink of the operation has raised
NoUnlinkError(who) ==
    \A i \in EventsBy(who, "unlink") : log[i].result = "ok"

\* path is gone, or the os.unlink of it was tried and raised
Released(who, path) ==
    \/ path \notin DOMAIN files
    \/ \E i \in EventsBy(who, "unlink") :
         log[i].path = path /\ log[i].result = "error"

\* the session was opened: __enter__ returned
Opened(c) == c.pc \in {"opened", "closed"} /\ c.raised # "enter"

\* C1: after a session has ended, however open or close failed (download,
\* allocation of the output temp file, copy, upload), the temp files that
\* exist are the ones that existed before it started.
C1_SessionReleasesTempFiles ==
    \A s \in Sessions :
        ctx[s].pc = "closed" /\ NoUnlinkError(s)
            => TempFilesIn(files) = TempFilesIn(files0)

\* C2: an opened session on a remote source, read-write, with no explicit
\* output: the result path differs from the original address, it is the
\* original bucket with the key <stem>_edited_<timestamp><ext>, every upload
\* of the session goes to it, and none goes to the original object.
C2_VersionedAddressNeverOriginal ==
    \A s \in Sessions :
        LET c      == ctx[s]
            orig   == parse_s3_uri(c.original_path)
            result == parse_s3_uri(get_result_path(c))
            split  == splitext(orig.key)
        IN  Opened(c) /\ c.is_s3 /\ ~c.read_only /\ ~Truthy(c.output_arg)
            => /\ get_result_path(c) # c.original_path
               /\ result.ok
               /\ result.bucket = orig.bucket
               /\ \E now \in 0..MaxClock :
                    result.key = split.base \o EditedTag \o IntToStr(now) \o split.ext
               /\ \A i \in UploadsBy(s) :
                    /\ log[i].uri = get_result_path(c)
                    /\ ObjectOf(log[i].uri) # ObjectOf(c.original_path)

\* C3: when the upload at close fails, close raises, and the downloaded
\* input temp file and the output temp file are deleted all the same (a
\* file stays only if the os.unlink of it raised, which is swallowed).
C3_UploadFailureRaisesAfterCleanup ==
    \A s \in Sessions :
        ctx[s].pc = "closed" /\ ctx[s].upload = "failed"
            => /\ ctx[s].raised = "exit"
               /\ Truthy(ctx[s].temp_file) => Released(s, ctx[s].temp_file)
               /\ Truthy(ctx[s].output_temp_file)
                    => Released(s, ctx[s].output_temp_file)

\* C3, the case: a remote source whose upload the store refused; close
\* raised and both temp files are gone
C3_Witness ==
    \E s \in Sessions :
        /\ ctx[s].pc = "closed" /\ ctx[s].upload = "failed"
        /\ ctx[s].raised = "exit"
        /\ \E i \in UploadsBy(s) : log[i].result \in StoreFaults
        /\ Truthy(ctx[s].temp_file) /\ ctx[s].temp_file \notin DOMAIN files
        /\ Truthy(ctx[s].output_temp_file)
        /\ ctx[s].output_temp_file # ctx[s].temp_file
        /\ ctx[s].output_temp_file \notin DOMAIN files
        /\ Cardinality(EventsBy(s, "unlink")) = 2

\* C4: when merge_documents has returned, on any path, no temp file made
\* during the call is left: the temp files that exist are the ones that
\* existed before.
C4_MergeReleasesTempFiles ==
    mrg.pc = "done" /\ NoUnlinkError("merge")
        => TempFilesIn(files) = TempFilesIn(files0)

\* C5: a merge into a remote target uploads to a new versioned address, never
\* to the target address itself, and the path in the success message is
\* the address uploaded to.
C5_MergeTargetVersioned ==
    /\ \A i \in UploadsBy("merge") :
         ObjectOf(log[i].uri) # ObjectOf(mrg.target_filename)
    /\ mrg.pc = "done" /\ mrg.result.ok /\ mrg.target_is_s3
         => /\ mrg.result.name # mrg.target_filename
            /\ \E i \in UploadsBy("merge") : log[i].uri = mrg.result.name

\* C6: s3_file_handler on a remote input with no output_path never uploads
\* to the address of the input object.
C6_HandlerKeepsOriginal ==
    hnd.is_s3_input /\ ~Truthy(hnd.output_path)
        => \A i \in UploadsBy("handler") :
             ObjectOf(log[i].uri) # ObjectOf(hnd.input_path)

\* C7: a read-write session with a remote output whose body ended without an
\* exception has, once closed, either uploaded or raised.
C7_SuccessCommitsOrRaises ==
    \A s \in Sessions :
        LET c == ctx[s]
        IN  (/\ c.pc = "closed" /\ c.raised # "enter"
             /\ ~c.exc /\ ~c.read_only /\ is_s3_uri(c.output_s3_uri))
            => (c.upload = "ok" \/ c.raised = "exit")

\* the sources of the merge that cannot resolve whatever the store does:
\* the local ones that do not exist
MissingLocalSources ==
    {i \in 1..Len(mrg.source_filenames) :
        LET doc_filename == ensure_docx_extension(mrg.source_filenames[i])
        IN  ~is_s3_uri(doc_filename) /\ doc_filename \notin DOMAIN files0}

\* a local merge target is as it was before the call
LocalTargetUntouched ==
    ~mrg.target_is_s3 =>
        /\ mrg.target_filename \in DOMAIN files <=> mrg.target_filename \in DOMAIN files0
        /\ mrg.target_filename \in DOMAIN files
             => files[mrg.target_filename] = files0[mrg.target_filename]

\* a source of the merge did not resolve, or cannot
SourceUnresolved ==
    \/ mrg.failed_at > 0
    \/ \E i \in EventsBy("merge", "download") : log[i].result # "ok"
    \/ mrg.pc # "none" /\ MissingLocalSources # {}

\* C8: when a source of the merge does not resolve (a download that fails, a
\* local file that does not exist), at any position, the message returned
\* is a failure naming that source, nothing is uploaded and a local target
\* is not written.
C8_MergeAbortsOnUnresolvedSource ==
    /\ mrg.failed_at > 0
         => /\ ~mrg.result.ok
            /\ mrg.result.name =
                 ensure_docx_extension(mrg.source_filenames[mrg.failed_at])
            /\ mrg.pc \in {"cleanup", "done"}
    /\ SourceUnresolved
         => /\ mrg.upload = "not called" /\ UploadsBy("merge") = {}
            /\ ~mrg.saved
            /\ LocalTargetUntouched
            /\ mrg.pc = "done" => ~mrg.result.ok

\* C8, the case: the second of two sources did not resolve, after the first
\* was downloaded; the merge returned the failure and the target, remote or
\* an existing local file, was left alone
C8_Witness ==
    /\ mrg.pc = "done" /\ mrg.failed_at = 2
    /\ \E i \in EventsBy("merge", "download") : log[i].result = "ok"
    /\ ~mrg.result.ok
    /\ mrg.result.name = ensure_docx_extension(mrg.source_filenames[2])
    /\ UploadsBy("merge") = {}

\* C9: a session on a local source, read-write, with no explicit output: the
\* caller is handed the original path, no temp file is made, upload_to_s3 is
\* never called and the result path is the original path.
C9_LocalInPlace ==
    \A s \in Sessions :
        LET c == ctx[s]
        IN  c.pc # "none" /\ ~c.is_s3 /\ ~c.read_only /\ ~Truthy(c.output_arg)
            => /\ c.pc \in {"opened", "closed"}
                    => c.handed = c.original_path /\ c.raised # "enter"
               /\ EventsBy(s, "mkstemp") = {}
               /\ TempFilesIn(files) = TempFilesIn(files0)
               /\ c.upload = "not called" /\ UploadsBy(s) = {}
               /\ get_result_path(c) = c.original_path

\* C9, the case: such a session saved its document and closed normally; the
\* save is in the original file
C9_Witness ==
    \E s \in Sessions :
        /\ ctx[s].pc = "closed" /\ ctx[s].raised = "none"
        /\ ~ctx[s].is_s3 /\ ~ctx[s].read_only /\ ~Truthy(ctx[s].output_arg)
        /\ ctx[s].saved
        /\ ctx[s].original_path \in DOMAIN files
        /\ files[ctx[s].original_path] = SavedDoc

\* C10: a read-only session on a remote source never calls upload_to_s3, on
\* any exit path, whether or not the working file was modified.
C10_ReadOnlyNeverUploads ==
    \A s \in Sessions :
        ctx[s].is_s3 /\ ctx[s].read_only
            => ctx[s].upload = "not called" /\ UploadsBy(s) = {}

\* C10, the case: a read-only session on a remote source, with an output
\* URI, whose body saved to the working file and ended normally, is closed
C10_Witness ==
    \E s \in Sessions :
        /\ ctx[s].pc = "closed" /\ ctx[s].raised = "none"
        /\ ctx[s].is_s3 /\ ctx[s].read_only
        /\ ctx[s].saved /\ ~ctx[s].exc
        /\ Truthy(ctx[s].output_s3_uri)

\* C11: when the body of a session raised, close attempts no upload, the
\* session's temp files are deleted (a file stays only if the os.unlink of
\* it raised), and the body's exception leaves the with statement.
C11_FailureClosesWithoutUpload ==
    \A s \in Sessions :
        ctx[s].pc = "closed" /\ ctx[s].exc
            => /\ ctx[s].upload = "not called" /\ UploadsBy(s) = {}
               /\ ctx[s].raised = "body"
               /\ Truthy(ctx[s].temp_file) => Released(s, ctx[s].temp_file)
               /\ Truthy(ctx[s].output_temp_file)
                    => Released(s, ctx[s].output_temp_file)

\* C11, the case: a read-write session on a remote source whose body saved
\* and then raised; both temp files are gone, nothing was uploaded
C11_Witness ==
    \E s \in Sessions :
        /\ ctx[s].pc = "closed" /\ ctx[s].exc /\ ctx[s].saved
        /\ ctx[s].is_s3 /\ ~ctx[s].read_only
        /\ ctx[s].raised = "body"
        /\ Truthy(ctx[s].temp_file) /\ ctx[s].temp_file \notin DOMAIN files
        /\ Truthy(ctx[s].output_temp_file)
        /\ ctx[s].output_temp_file \notin DOMAIN files
        /\ Cardinality(EventsBy(s, "unlink")) = 2
        /\ store = store0

\* the path a session is to report: the explicit output URI if one was
\* given, the versioned address for a remote source opened read-write,
\* the original path otherwise
ReportedPathAsSpecified(c) ==
    /\ Truthy(c.output_arg) => get_result_path(c) = c.output_arg
    /\ ~Truthy(c.output_arg) /\ c.is_s3 /\ ~c.read_only
         => \E now \in 0..MaxClock :
              get_result_path(c) = generate_versioned_path(c.original_path, now)
    /\ ~Truthy(c.output_arg) /\ ~(c.is_s3 /\ ~c.read_only)
         => get_result_path(c) = c.original_path /\ ~Truthy(c.output_s3_uri)

\* C12: get_result_path is the output URI when there is one (the explicit
\* one verbatim, else the versioned address of a remote source opened
\* read-write) and the original path otherwise; and the output URI and the
\* reported path of a session never change once it is constructed.
C12_ResultPathIsOutputLocator ==
    /\ [](\A s \in Sessions :
            ctx[s].pc # "none" => ReportedPathAsSpecified(ctx[s]))
    /\ [][\A s \in Sessions :
            ctx[s].pc # "none"
                => /\ ctx'[s].output_s3_uri = ctx[s].output_s3_uri
                   /\ get_result_path(ctx'[s]) = get_result_path(ctx[s])]_vars

\* C12, the case: a session with an explicit output URI on a remote source
\* has uploaded and closed; it reports the explicit URI
C12_Witness ==
    \E s \in Sessions :
        /\ ctx[s].pc = "closed" /\ ctx[s].raised = "none"
        /\ ctx[s].is_s3 /\ Truthy(ctx[s].output_arg)
        /\ ctx[s].upload = "ok"
        /\ get_result_path(ctx[s]) = ctx[s].output_arg
        /\ get_result_path(ctx[s]) # ctx[s].original_path

\* the steps a session takes: constructed, then opened or left because
\* __enter__ raised, then closed
LifecycleSteps ==
    {<<"none", "created">>, <<"created", "opened">>, <<"created", "closed">>,
     <<"opened", "closed">>}

\* a session goes through its states in order, and only __enter__ raising
\* takes it from created to the end
LifecycleOrder ==
    [][\A s \in Sessions :
         ctx'[s].pc # ctx[s].pc
             => /\ <<ctx[s].pc, ctx'[s].pc>> \in LifecycleSteps
                /\ ctx[s].pc = "created" /\ ctx'[s].pc = "closed"
                     => ctx'[s].raised = "enter"]_vars

\* the download is done before the caller is handed the working path; the
\* upload is attempted at most once, after an open and a body that did not
\* raise; every os.unlink comes after the upload attempt
LifecycleCalls(s) ==
    LET c == ctx[s]
    IN  /\ Truthy(c.handed) => Opened(c)
        /\ Opened(c) /\ c.is_s3
             => \E i \in EventsBy(s, "download") : log[i].result = "ok"
        /\ Cardinality(UploadsBy(s)) <= 1
        /\ c.upload # "not called" \/ UploadsBy(s) # {}
             => c.pc = "closed" /\ c.raised # "enter" /\ ~c.exc
        /\ \A i \in EventsBy(s, "unlink") : \A j \in UploadsBy(s) : j < i

ToolWorkDone ==
    /\ tool.pc = "done"
    /\ tool.name \in {"create_document", "copy_document"}
    /\ \/ tool.upload = "ok"
       \/ \E i \in EventsBy("tool", "copy") : log[i].result = "ok"

\* C14: an os.unlink that fails never raises out of the cleanup and never
\* changes the outcome: a session whose upload succeeded closes without
\* raising, and a merge_documents, create_document or copy_document whose
\* upload (or copy) succeeded returns its success message.
C14_UnlinkFailureNeverMasksResult ==
    /\ \A s \in Sessions :
         ctx[s].pc = "closed" /\ ctx[s].upload = "ok" => ctx[s].raised = "none"
    /\ mrg.pc = "done" /\ mrg.upload = "ok" => mrg.result.ok
    /\ ToolWorkDone => tool.result.ok /\ ~tool.raised

\* the calls of an operation, other than the os.unlink of its cleanup, that
\* failed
FailedSteps(who) ==
    {i \in 1..Len(log) :
        log[i].who = who /\ log[i].ev # "unlink" /\ log[i].result # "ok"}

\* the destination a tool writes to: the document created, the copy
ToolDestination ==
    IF tool.name = "copy_document" THEN tool.destination ELSE tool.filename

\* C15: every document tool returns a message and raises nothing; a step
\* that failed (download, upload, temp file, copy) gives a failure message;
\* a success message means that no step failed and that a remote
\* destination was uploaded to.
C15_ToolsAlwaysReturnMessage ==
    /\ tool.pc = "done"
         => /\ ~tool.raised
            /\ FailedSteps("tool") # {} \/ tool.upload = "failed"
                 => ~tool.result.ok
            /\ tool.result.ok /\ tool.name \in {"create_document", "copy_document"}
                              /\ is_s3_uri(ToolDestination)
                 => /\ tool.upload = "ok"
                    /\ ObjectOf(ToolDestination) \in DOMAIN store
    /\ mrg.pc = "done"
         => /\ FailedSteps("merge") # {} \/ mrg.upload = "failed"
                 => ~mrg.result.ok
            /\ mrg.result.ok
                 => /\ mrg.saved /\ mrg.failed_at = 0
                    /\ mrg.target_is_s3 => mrg.upload = "ok"

\* C15, the case: create_document on an S3 URI made its temp file, saved,
\* uploaded and returned the success message; the object is in the store
C15_Witness ==
    /\ tool.pc = "done" /\ tool.name = "create_document"
    /\ is_s3_uri(tool.filename)
    /\ tool.result.ok /\ tool.result.name = tool.filename
    /\ tool.upload = "ok"
    /\ ObjectOf(tool.filename) \in DOMAIN store
    /\ store[ObjectOf(tool.filename)] = NewDoc

\* C16: two sessions that are open at the same time never have the same
\* working path.
C16_NoSharedWorkingPath ==
    \A s1 \in Sessions : \A s2 \in Sessions \ {s1} :
        ctx[s1].pc = "opened" /\ ctx[s2].pc = "opened"
            => ctx[s1].local_path # ctx[s2].local_path

\* the merge has returned its success message
MergeSucceeded == mrg.pc = "done" /\ mrg.result.ok

\* the body of source i as it was when the merge read it
SourceBody(i) ==
    LET doc_filename == ensure_docx_extension(mrg.source_filenames[i])
    IN  IF is_s3_uri(doc_filename) THEN store0[ObjectOf(doc_filename)].body
        ELSE files0[doc_filename].body

\* the body of the merged document, where the merge put it
MergedBody ==
    IF mrg.target_is_s3 THEN store[ObjectOf(mrg.target_filename)].body
    ELSE files[mrg.target_filename].body

\* the positions of the page breaks in a sequence of blocks
Breaks(blocks) == {p \in 1..Len(blocks) : blocks[p] = PageBreak}

\* the number of paragraphs the target holds before the page break of
\* source k, when there is a page break before each source but the first
RECURSIVE ParagraphsBefore(_)
ParagraphsBefore(k) ==
    IF k <= 1 THEN 0
    ELSE ParagraphsBefore(k - 1) + (IF k > 2 THEN 1 ELSE 0)
            + Len(paragraphs(SourceBody(k - 1)))

\* C17: after a successful merge of N sources, with add_page_breaks and
\* N >= 2 the merged document holds exactly N-1 page breaks, the one of
\* source k (k = 2..N) right after the paragraphs of sources 1..k-1 and
\* right before the paragraphs of source k, none before the first source;
\* otherwise it holds none.
C17_PageBreaksBetweenSources ==
    MergeSucceeded =>
        LET N == Len(mrg.source_filenames)
        IN  IF mrg.add_page_breaks /\ N >= 2
            THEN /\ Cardinality(Breaks(MergedBody)) = N - 1
                 /\ Breaks(paragraphs(MergedBody))
                      = {ParagraphsBefore(k) + 1 : k \in 2..N}
                 /\ \A p \in Breaks(MergedBody) :
                      /\ p > 1 \/ SourceBody(1) = << >>
                      /\ p < Len(MergedBody) /\ MergedBody[p + 1] = PageBreak
                           => \E k \in 2..N : SourceBody(k) = << >>
            ELSE Breaks(MergedBody) = {}

\* C17, the case: two sources with content were merged with
\* add_page_breaks; the one page break stands between them
C17_Witness ==
    /\ MergeSucceeded /\ mrg.add_page_breaks
    /\ Len(mrg.source_filenames) = 2
    /\ Cardinality(Breaks(MergedBody)) = 1
    /\ \E p \in Breaks(MergedBody) :
         /\ p = Len(SourceBody(1)) + 1
         /\ p > 1 /\ p < Len(MergedBody)

\* the paragraphs, and the tables, of sources 1..k one after the other
RECURSIVE SourceParagraphs(_)
SourceParagraphs(k) ==
    IF k = 0 THEN << >>
    ELSE SourceParagraphs(k - 1) \o paragraphs(SourceBody(k))

RECURSIVE SourceTables(_)
SourceTables(k) ==
    IF k = 0 THEN << >>
    ELSE SourceTables(k - 1) \o tables(SourceBody(k))

IsContent(block) == block # PageBreak

\* C18 as stated: after a successful merge the paragraphs of the merged
\* document are the paragraphs of the sources, in source order and in their
\* own order, and so are its tables.
C18_ContentIsConcatenation ==
    MergeSucceeded =>
        /\ paragraphs(MergedBody) = SourceParagraphs(Len(mrg.source_filenames))
        /\ tables(MergedBody) = SourceTables(Len(mrg.source_filenames))

\* C18: after a successful merge the paragraphs of the merged document,
\* leaving out the page-break paragraphs the merge itself adds between
\* sources, are the paragraphs of the sources in source order and in their
\* own order, and its tables are the tables of the sources likewise;
\* without add_page_breaks, or with one source, there is nothing to leave
\* out.
C18_ContentIsConcatenationApartFromBreaks ==
    MergeSucceeded =>
        LET N == Len(mrg.source_filenames)
        IN  /\ SelectSeq(paragraphs(MergedBody), IsContent) = SourceParagraphs(N)
            /\ tables(MergedBody) = SourceTables(N)
            /\ ~mrg.add_page_breaks \/ N <= 1
                 => paragraphs(MergedBody) = SourceParagraphs(N)
            /\ Len(MergedBody)
                 = Len(SourceParagraphs(N)) + Len(SourceTables(N))
                     + Cardinality(Breaks(MergedBody))

\* C18, the case: two sources, each with paragraphs and a table, were
\* merged with add_page_breaks into an uploaded or saved target
C18_Witness ==
    /\ MergeSucceeded /\ mrg.add_page_breaks
    /\ Len(mrg.source_filenames) = 2
    /\ mrg.source_filenames[1] # mrg.source_filenames[2]
    /\ Len(SourceTables(2)) = 2
    /\ Len(SourceParagraphs(2)) >= 3
    /\ paragraphs(MergedBody) # SourceParagraphs(2)
    /\ SelectSeq(paragraphs(MergedBody), IsContent) = SourceParagraphs(2)

\* a session on a remote source whose output is remote
RemoteToRemote(c) == c.is_s3 /\ Truthy(c.output_s3_uri)

\* the bytes the session downloaded
Downloaded(c) == store0[ObjectOf(c.original_path)]

\* the events of session s, in order
SessionCalls(s) == SelectSeq(log, LAMBDA e : e.who = s)

\* C19: a session on a remote source with a remote output that was opened
\* has been handed a second temp file, made after the download and filled
\* by a copy of the downloaded file; the downloaded temp file is another
\* file than the one handed, and from the open on it holds the downloaded
\* bytes for as long as it exists, whatever the body does to the file it
\* was handed.
C19_EditsActOnCopyOfDownload ==
    \A s \in Sessions :
        RemoteToRemote(ctx[s]) /\ ctx[s].pc \in {"opened", "closed"}
            /\ ctx[s].raised # "enter" =>
        /\ Truthy(ctx[s].temp_file) /\ Truthy(ctx[s].output_temp_file)
        /\ ctx[s].handed = ctx[s].output_temp_file
        /\ ctx[s].handed # ctx[s].temp_file
        /\ Len(SessionCalls(s)) >= 4
        /\ SessionCalls(s)[1] = Event("mkstemp", s, ctx[s].temp_file, None, "ok")
        /\ SessionCalls(s)[2]
             = Event("download", s, ctx[s].temp_file, ctx[s].original_path, "ok")
        /\ SessionCalls(s)[3] = Event("mkstemp", s, ctx[s].handed, None, "ok")
        /\ SessionCalls(s)[4] = Event("copy", s, ctx[s].handed, None, "ok")
        /\ ctx[s].temp_file \in DOMAIN files
             => files[ctx[s].temp_file] = Downloaded(ctx[s])
        /\ ctx[s].pc = "opened" =>
             /\ ctx[s].temp_file \in DOMAIN files
             /\ ~ctx[s].saved /\ ctx[s].handed \in DOMAIN files
                  => files[ctx[s].handed] = Downloaded(ctx[s])

\* C19, the case: the body of such a session has saved to the file it was
\* handed, and the downloaded file still holds what was downloaded
C19_Witness ==
    \E s \in Sessions :
        /\ RemoteToRemote(ctx[s]) /\ ctx[s].pc = "opened" /\ ctx[s].saved
        /\ ctx[s].handed \in DOMAIN files
        /\ ctx[s].temp_file \in DOMAIN files
        /\ files[ctx[s].handed] = SavedDoc
        /\ files[ctx[s].temp_file] = Downloaded(ctx[s])
        /\ files[ctx[s].temp_file] # SavedDoc

\* what a call of download_from_s3 or upload_to_s3 met, from its arguments,
\* the files and the store before it, and the answer of the store
AnswerKind(answer) ==
    CASE answer = "ok" -> "ok"
      [] answer = "403" -> "access denied"
      [] answer = "nocreds" -> "missing credentials"
      [] OTHER -> "other"

CallKind ==
    IF ~parse_s3_uri(call.s3_uri).ok THEN "invalid address"
    ELSE IF call.fn = "upload_to_s3"
    THEN IF call.local_path \notin DOMAIN files0 THEN "no local file"
         ELSE AnswerKind(call.answer)
    ELSE IF ~call.mk THEN "other"
    ELSE IF call.answer = "ok" /\ ObjectOf(call.s3_uri) \notin DOMAIN store0
    THEN "not found"
    ELSE AnswerKind(call.answer)

\* the outcome a returned message stands for
MessageKind(message) ==
    CASE message \in {"Downloaded from S3", "Uploaded"} -> "ok"
      [] message \in {"Not a valid S3 URI", "No bucket specified in S3 URI",
                      "No key specified in S3 URI"} -> "invalid address"
      [] message = "Local file does not exist" -> "no local file"
      [] message = "S3 object not found" -> "not found"
      [] message \in {"Access denied to S3 object",
                      "Access denied uploading to S3"} -> "access denied"
      [] message = "AWS credentials not configured" -> "missing credentials"
      [] message \in {"S3 error", "Failed to download from S3",
                      "Failed to upload to S3"} -> "other"
      [] OTHER -> "unknown"

StoreRequests(who) == EventsBy(who, "download") \cup EventsBy(who, "upload")

\* C20: a call of download_from_s3 or upload_to_s3 returns and does not
\* raise; it succeeds only when the store answered; a failure is returned
\* with a message that tells which of invalid address, object not found,
\* access denied, missing credentials or another failure it was, and, for
\* a download, with no local path; an invalid address and a missing local
\* file are reported without asking the store; and a call asks the store
\* at most once.
C20_StoreCallsReturnFailures ==
    call.pc = "done" /\ call.fn \in {"download_from_s3", "upload_to_s3"} =>
        /\ ~call.raised
        /\ call.success <=> CallKind = "ok"
        /\ MessageKind(call.message) = CallKind
        /\ ~call.success => call.returned_path = None
        /\ call.fn = "download_from_s3" /\ call.success
             => /\ call.returned_path \in DOMAIN files
                /\ files[call.returned_path] = store0[ObjectOf(call.s3_uri)]
        /\ Cardinality(StoreRequests("call")) <= 1
        /\ CallKind \in {"invalid address", "no local file"}
             => /\ StoreRequests("call") = {}
                /\ store = store0
        /\ call.fn = "upload_to_s3" /\ ~call.success => store = store0

\* C20, the case: a download the store refused was returned as a failure
\* without a path, after one request
C20_Witness ==
    /\ call.pc = "done" /\ ~call.success /\ ~call.raised
    /\ call.fn = "download_from_s3" /\ call.answer = "403" /\ call.mk
    /\ parse_s3_uri(call.s3_uri).ok
    /\ call.message = "Access denied to S3 object"
    /\ call.returned_path = None
    /\ Cardinality(StoreRequests("call")) = 1

\* the generic binary content type
BinaryType == "application/octet-stream"

\* the upload requests made so far
Uploads == {i \in 1..Len(log) : log[i].ev = "upload"}

\* C21 as stated: the content type sent with an upload is the document type
\* for a .docx file, the PDF type for a .pdf file, and the generic binary
\* type for a file with any other extension.
C21_ContentTypeFollowsExtension ==
    \A i \in Uploads :
        LET ext == splitext(log[i].path).ext
        IN  log[i].content_type =
                IF ext = DocxExt THEN DocxType
                ELSE IF ext = PdfExt THEN PdfType
                ELSE BinaryType

\* the parts of a string that starts with the scheme: the authority runs
\* to the first of / ? #, the path from there to the first of ? #
Remote(str) ==
    /\ Len(str) >= 5
    /\ str[1] = "s" /\ str[2] = "3" /\ str[3] = ":" /\ str[4] = "/" /\ str[5] = "/"

Authority(str) ==
    LET after == Tail_from(str, 6)
    IN  SubSeq(after, 1, FindFirstOf(after, {"/", "?", "#"}, 1) - 1)

PathPart(str) ==
    LET after == Tail_from(str, 6 + Len(Authority(str)))
    IN  SubSeq(after, 1, FindFirstOf(after, {"?", "#"}, 1) - 1)

RECURSIVE StripSeparators(_)
StripSeparators(path) ==
    IF path # << >> /\ Head(path) = "/" THEN StripSeparators(Tail(path)) ELSE path

Separators(n) == [i \in 1..n |-> "/"]

\* C22: a string is taken as remote exactly when it starts with s3://;
\* parsing succeeds exactly when the string is remote and has a non-empty
\* authority and a non-empty path once its leading separators are
\* stripped, and then returns the authority as bucket and the stripped
\* path as key, so the string is scheme, bucket, separators, key, and at
\* most a query or fragment; otherwise it fails with an invalid-address
\* error and returns neither; and it changes no file, no object and makes
\* no call.
C22_ParseYieldsAuthorityAndPath ==
    call.pc = "done" /\ call.fn = "parse_s3_uri" =>
        LET str == call.s3_uri
        IN  /\ call.is_s3 <=> Remote(str)
            /\ call.success <=>
                 /\ Remote(str)
                 /\ Authority(str) # << >>
                 /\ StripSeparators(PathPart(str)) # << >>
            /\ call.success =>
                 /\ call.bucket = Authority(str)
                 /\ call.key = StripSeparators(PathPart(str))
                 /\ Head(call.key) # "/"
                 /\ \E n \in 1..Len(str) :
                      LET used == S3Scheme \o call.bucket \o Separators(n) \o call.key
                      IN  /\ StartsWith(str, used)
                          /\ Len(used) = Len(str) \/ str[Len(used) + 1] \in {"?", "#"}
            /\ ~call.success =>
                 /\ MessageKind(call.message) = "invalid address"
                 /\ call.bucket = None /\ call.key = None
            /\ files = files0 /\ store = store0 /\ log = << >>

\* C22, the cases: a remote string with a fragment was parsed into bucket
\* and key
C22_Witness ==
    /\ call.pc = "done" /\ call.fn = "parse_s3_uri"
    /\ call.s3_uri = S3Scheme \o <<"b", "/", "k", "#">>
    /\ call.success /\ call.is_s3
    /\ call.bucket = <<"b">> /\ call.key = <<"k">>

\* C23: ensure_docx_extension returns its argument when that ends with
\* .docx and the argument followed by .docx otherwise, for local and for
\* remote strings alike; so what it returns ends with .docx, is returned
\* unchanged when normalized again, and is remote exactly when the
\* argument is; and s3://b/docs/report becomes s3://b/docs/report.docx,
\* which parses to bucket b and key docs/report.docx.
C23_NormalizationIsUniform ==
    call.pc = "done" /\ call.fn = "ensure_docx_extension" =>
        LET filename == call.local_path
            name     == call.returned_path
        IN  /\ name = IF EndsWith(filename, DocxExt) THEN filename
                      ELSE filename \o DocxExt
            /\ EndsWith(name, DocxExt)
            /\ ensure_docx_extension(name) = name
            /\ call.is_s3 <=> Remote(filename)
            /\ filename = UriReport =>
                 /\ name = UriReport \o DocxExt
                 /\ call.success
                 /\ call.bucket = <<"b">>
                 /\ call.key = <<"d", "o", "c", "s", "/", "r", "e", "p", "o", "r", "t">>
                                 \o DocxExt

\* C23, the case: s3://b/docs/report was normalized and parsed
C23_Witness ==
    /\ call.pc = "done" /\ call.fn = "ensure_docx_extension"
    /\ call.local_path = UriReport
    /\ call.returned_path = UriReport \o DocxExt
    /\ call.is_s3 /\ call.success

\* C24 as stated: when a read-write session with a remote output has
\* uploaded at close, the file it uploaded is the file the caller was
\* handed at open, and when the caller had saved to that file the object
\* at the output address holds what was saved.
C24_UploadsTheWorkingPath ==
    \A s \in Sessions :
        /\ ctx[s].pc = "closed" /\ ~ctx[s].read_only
        /\ Truthy(ctx[s].output_s3_uri)
        /\ ctx[s].upload = "ok"
        => /\ \A i \in UploadsBy(s) : log[i].path = ctx[s].handed
           /\ ctx[s].saved
                => store[ObjectOf(ctx[s].output_s3_uri)] = SavedDoc

\* a read-write session on a remote source that was given no output
\* address: its output address is the versioned one
Versioned(c) ==
    c.pc # "none" /\ c.is_s3 /\ ~c.read_only /\ ~Truthy(c.output_arg)

\* session s commits in this step
Commits(s) == ctx[s].pc = "opened" /\ ctx'[s].upload = "ok"

\* C25: two read-write sessions on the same remote source have the same
\* versioned output address exactly when they were created in the same
\* second; and a commit is made whatever the output address already
\* holds: after it the object there is the file the session uploaded, so
\* of two sessions with one address the later commit replaces what the
\* earlier one wrote.
C25_SameSecondSameAddress ==
    /\ [](\A s, t \in Sessions :
            /\ s # t /\ Versioned(ctx[s]) /\ Versioned(ctx[t])
            /\ ctx[s].original_path = ctx[t].original_path
            => (ctx[s].output_s3_uri = ctx[t].output_s3_uri
                  <=> ctx[s].timestamp = ctx[t].timestamp))
    /\ [][\A s \in Sessions :
            Versioned(ctx[s]) /\ Commits(s)
            => /\ ctx[s].output_local_path \in DOMAIN files
               /\ store'[ObjectOf(ctx[s].output_s3_uri)]
                    = files[ctx[s].output_local_path]]_vars

\* C25, the case: two sessions created in the same second on one remote
\* source have both committed; the first had saved its edit, the second
\* committed an unedited copy afterwards, and the object at their common
\* address holds the second one's file, not the edit
C25_Witness ==
    \E s, t \in Sessions :
        /\ s # t /\ Versioned(ctx[s]) /\ Versioned(ctx[t])
        /\ ctx[s].original_path = ctx[t].original_path
        /\ ctx[s].timestamp = ctx[t].timestamp
        /\ ctx[s].output_s3_uri = ctx[t].output_s3_uri
        /\ ctx[s].upload = "ok" /\ ctx[t].upload = "ok"
        /\ ctx[s].saved /\ ~ctx[t].saved
        /\ \E i \in UploadsBy(s), j \in UploadsBy(t) : i < j
        /\ store[ObjectOf(ctx[s].output_s3_uri)] = store0[ObjectOf(ctx[s].original_path)]
        /\ store[ObjectOf(ctx[s].output_s3_uri)] # SavedDoc

\* the successful deletions made so far
Deletions == {i \in 1..Len(log) : log[i].ev = "unlink" /\ log[i].result = "ok"}

\* the file deleted at i was made by the same operation's mkstemp
AllocatedBefore(i) ==
    \E j \in 1..(i - 1) :
        /\ log[j].ev = "mkstemp" /\ log[j].result = "ok"
        /\ log[j].who = log[i].who
        /\ log[j].path = log[i].path

\* C26: every file an operation has deleted is a temp file the same
\* operation made before, and no file that was there before the operation
\* started (a local source, a local target, a local destination, another
\* party's temp file) has been deleted by it.
C26_OnlyOwnTempFilesDeleted ==
    \A i \in Deletions :
        /\ AllocatedBefore(i)
        /\ IsTemp(log[i].path)
        /\ log[i].path \notin DOMAIN files0

\* C26, the case: a session on the local file d.docx with a remote output
\* is closed, its output temp file was deleted, and d.docx is still there
C26_Witness ==
    \E s \in Sessions :
        /\ ctx[s].pc = "closed" /\ ~ctx[s].is_s3
        /\ ctx[s].original_path = PathD /\ PathD \in DOMAIN files0
        /\ Truthy(ctx[s].output_temp_file)
        /\ \E i \in Deletions :
             log[i].who = s /\ log[i].path = ctx[s].output_temp_file
        /\ ctx[s].output_temp_file \notin DOMAIN files
        /\ PathD \in DOMAIN files

\* what target_doc holds once sources 1..k are copied
RECURSIVE CopiedUpTo(_)
CopiedUpTo(k) ==
    IF k = 0 THEN << >>
    ELSE CopiedUpTo(k - 1) \o MergedBlocks(mrg.add_page_breaks, k, SourceBody(k))

\* the target address holds what it held before the merge started
RemoteTargetUntouched ==
    mrg.target_is_s3 /\ parse_s3_uri(mrg.target_filename).ok => store = store0

\* C27: merge_documents saves its target only when every source was
\* resolved and copied, and what it saves then is the whole merge; when
\* reading or copying a source raised, nothing was saved or uploaded, a
\* local target is as it was before and the merge reports failure; and
\* while sources are resolved and copied the target is not written, so
\* that a local target that was saved, and the object of an upload that
\* succeeded, hold the whole merge.
C27_NoPartialMergeCommitted ==
    LET N == Len(mrg.source_filenames)
    IN  /\ mrg.saved =>
             /\ mrg.copy_failed_at = 0 /\ mrg.failed_at = 0
             /\ Len(mrg.local_sources) = N
             /\ mrg.target_doc = CopiedUpTo(N)
        /\ mrg.copy_failed_at > 0 =>
             /\ ~mrg.saved
             /\ mrg.upload = "not called" /\ UploadsBy("merge") = {}
             /\ LocalTargetUntouched /\ RemoteTargetUntouched
             /\ mrg.pc \in {"cleanup", "done"}
             /\ mrg.result = MergeException
        /\ mrg.pc \in {"resolve", "copy"} =>
             /\ ~mrg.saved /\ UploadsBy("merge") = {}
             /\ LocalTargetUntouched /\ RemoteTargetUntouched
        /\ mrg.saved /\ ~mrg.target_is_s3 =>
             files[mrg.target_filename] = Doc(CopiedUpTo(N))
        /\ mrg.upload = "ok" =>
             store[ObjectOf(mrg.target_filename)] = Doc(CopiedUpTo(N))

\* C27, the case: the second source raised while it was copied, after the
\* first was copied into the in-memory result; the merge has returned its
\* failure and the local target d.docx is what it was
C27_Witness ==
    /\ mrg.pc = "done" /\ mrg.copy_failed_at = 2
    /\ mrg.target_doc # << >>
    /\ ~mrg.target_is_s3 /\ mrg.target_filename \in DOMAIN files0
    /\ files[mrg.target_filename] = files0[mrg.target_filename]
    /\ ~mrg.result.ok /\ ~mrg.saved

=============================================================================
